---- MODULE Spec2Model ----
(***************************************************************************)
(* Dependency-inversion examples of nimiah/rust-tutorial.                  *)
(*                                                                         *)
(* The repository holds three independent programs under                   *)
(* material/dependency_inversion.  A behaviour of this module is a run of  *)
(* one test harness of one of them, chosen by Init and held in `harness`:  *)
(*   "AuthService"        refactoring_with_di.rs, AuthServiceFactory's     *)
(*                        test wiring (create_test, create_test_with_user) *)
(*   "UserService"        real_world_di.rs, build_test_user_service        *)
(*   "MockUserRepository" real_world_di.rs, the mock repository alone      *)
(*   "UserServiceBuilder<R>" dependency_inversion.rs, the builder and the  *)
(*                        UserService<R> it builds, for either repository  *)
(*   "AsyncUserService"   dependency_inversion.rs, a service and the test  *)
(*                        sharing one Arc<AsyncInMemoryRepository>         *)
(*   "AdvancedUserService" dependency_inversion.rs, a repository and a     *)
(*                        MockLogger                                       *)
(*   "AuthService, concurrent callers" refactoring_with_di.rs, tasks that  *)
(*                        are inside register at the same time             *)
(* In all but the last, every service operation is one action: callers are *)
(* sequential, and an action is the whole handler, provider calls          *)
(* included.  `last` records the operation that ran last: its arguments,   *)
(* its result, the provider calls it made in order, the provider call that *)
(* failed if one did, and the provider state it started from.  With        *)
(* concurrent callers an action is one provider call of one caller.        *)
(***************************************************************************)
EXTENDS Naturals, Sequences, FiniteSets, TLC

VARIABLES
    harness,      \* which wiring this run constructed
    auth_users,   \* after::MockUserRepository.users (Vec<User>)
    auth_cache,   \* after::MockCache.cache (HashMap<String, String>)
    uuid_count,   \* how many ids uuid::Uuid::new_v4() has handed out
    us_users,     \* real_world_di MockUserRepository.users (Vec<User>)
    us_cache,     \* real_world_di InMemoryCacheService.cache
    builder,      \* dependency_inversion UserServiceBuilder<R>, until build moves it
    service,      \* dependency_inversion UserService<R> that build returned, if any
    supplied,     \* history: the repositories given to this builder, in order
    seeded,       \* history: the records the test factory was given (kept until
                  \* the first mutating call)
    mutated,      \* history: a mutating operation has been called since wiring
    arc_heap,     \* the allocations behind Arc<AsyncInMemoryRepository>
    repo_handle,  \* the test's own Arc handle `repo`
    async_service,\* AsyncUserService { repository: Arc<dyn AsyncUserRepository> }
    advanced,     \* AdvancedUserService { repository, logger }
    procs,        \* concurrent callers of one provider or service: each one's
                  \* call and position in it
    mutexes,      \* the std::sync::Mutex of each in-memory provider: its holder
    wiring,       \* the providers constructed so far and the service's handles
    factory,      \* real_world_di ServiceFactory, until a build consumes it
    last          \* the last operation: op, arguments, result, calls, pre-state

vars ==
    <<harness, auth_users, auth_cache, uuid_count, us_users, us_cache,
      builder, service, supplied, seeded, mutated, arc_heap, repo_handle,
      async_service, advanced, procs, mutexes, wiring, factory, last>>

auth_vars == <<auth_users, auth_cache, uuid_count>>
us_vars == <<us_users, us_cache>>
basic_vars == <<builder, service, supplied>>
seed_vars == <<seeded, mutated>>
async_vars == <<arc_heap, repo_handle, async_service>>
\* the state of the harnesses that hold neither an AuthService, a real_world_di
\* UserService nor a builder
conc_vars == <<procs, mutexes>>
wire_vars == <<wiring, factory>>
other_vars == <<async_vars, advanced, conc_vars, wire_vars>>

\* `last` of a freshly wired harness: no operation has run yet.  `op` and `tag`
\* are the first record fields this module names, so TLC compares them first
\* and never compares the payloads of two different operations or of an Ok and
\* an Err (a String token with a User, say).
NoOp == [op |-> "new"]

(***************************************************************************)
(* Bounds of the model.                                                    *)
(***************************************************************************)
NumEmails == 2
MaxUsers == 2        \* longest Vec<User> of the real_world_di mock repository
MaxSupplied == 2     \* most with_repository calls on one builder

EmailOf(i) == "user" \o ToString(i) \o "@example.com"
Emails == {EmailOf(i) : i \in 1..NumEmails}
Passwords == {"password123", "new_password"}
Roles == {"user", "admin"}

(***************************************************************************)
(* Option<T> and Result<T, E>.                                             *)
(***************************************************************************)
Ok(v) == [tag |-> "Ok", val |-> v]
Err(e) == [tag |-> "Err", val |-> e]
None == [some |-> FALSE]
Some(v) == [some |-> TRUE, val |-> v]
Unit == "()"

(***************************************************************************)
(* Arc<T>: a handle is the address of its allocation in a heap.            *)
(***************************************************************************)
\* Arc::new(value): a new allocation and the handle of it.
Arc_new(heap, value) ==
    [heap |-> Append(heap, value), handle |-> Len(heap) + 1]

\* Mutant of clone: a deep copy, as a derived Clone of the repository would be.
Arc_clone_DeepCopy(heap, handle) ==
    [heap |-> Append(heap, heap[handle]), handle |-> Len(heap) + 1]

\* Arc::clone(&handle): another handle of the same allocation.
Arc_clone(heap, handle) == [heap |-> heap, handle |-> handle]

(***************************************************************************)
(* The services hold their repository and token service as Arc<dyn Trait>, *)
(* and every method of those traits returns a Result.  A provider call may *)
(* therefore fail whatever the stored state is: `fault` names the call     *)
(* that returns Err(fault.err) during one operation, NoFault when every    *)
(* call answers as the in-memory provider does.  A write that fails has    *)
(* written nothing.                                                        *)
(***************************************************************************)
NoFault == [call |-> "none", err |-> ""]
Failing(fault, call, result) ==
    IF fault.call = call THEN Err(fault.err) ELSE result
FailingWrite(fault, call, users, written) ==
    IF fault.call = call THEN [users |-> users, result |-> Err(fault.err)]
    ELSE written
\* The fault that occurred in an operation that made these calls.
Occurred(fault, calls) ==
    IF \E i \in 1..Len(calls) : calls[i] = fault.call THEN fault ELSE NoFault

\* users.iter().find(|u| u.email == email): the index of the first user with
\* that email, 0 when there is none.
FirstByEmail(users, email) ==
    IF \E i \in 1..Len(users) : users[i].email = email
    THEN CHOOSE i \in 1..Len(users) :
            /\ users[i].email = email
            /\ \A j \in 1..(i - 1) : users[j].email # email
    ELSE 0

\* Mutant of find: the last user with that id, as a map keyed by id would keep.
FirstById_Last(users, id) ==
    IF \E i \in 1..Len(users) : users[i].id = id
    THEN CHOOSE i \in 1..Len(users) :
            /\ users[i].id = id
            /\ \A j \in (i + 1)..Len(users) : users[j].id # id
    ELSE 0

\* users.iter().find(|u| u.id == id): the index of the first user with that id,
\* 0 when there is none.
FirstById(users, id) ==
    IF \E i \in 1..Len(users) : users[i].id = id
    THEN CHOOSE i \in 1..Len(users) :
            /\ users[i].id = id
            /\ \A j \in 1..(i - 1) : users[j].id # id
    ELSE 0

(***************************************************************************)
(* refactoring_with_di.rs: mock providers of module `after`.               *)
(***************************************************************************)
\* The ttl every cache.set of the services passes (Some(3600)); the mock caches
\* ignore it.
TtlSeconds == 3600

AuthUser(id, email, password_hash, role) ==
    [id |-> id, email |-> email, password_hash |-> password_hash, role |-> role]

\* Mutant of find_by_email: the closure compares the wrong field (u.id).
AuthRepo_find_by_email_WrongField(users, email) ==
    LET i == FirstById(users, email)
    IN  IF i = 0 THEN Ok(None) ELSE Ok(Some(users[i]))

\* MockUserRepository::find_by_email: the first user with that email.
AuthRepo_find_by_email(users, email) ==
    LET i == FirstByEmail(users, email)
    IN  IF i = 0 THEN Ok(None) ELSE Ok(Some(users[i]))

\* MockUserRepository::create: push, no check.
AuthRepo_create(users, user) ==
    [users |-> Append(users, user), result |-> Ok(user)]

\* Mutant of update: reports Ok without writing, as the Postgres stand-in does.
AuthRepo_update_NoWrite(users, user) ==
    [users |-> users, result |-> Ok(user)]

\* MockUserRepository::update: replace the first user with that id.
AuthRepo_update(users, user) ==
    LET i == FirstById(users, user.id)
    IN  IF i = 0
        THEN [users |-> users, result |-> Err("NotFound")]
        ELSE [users |-> [users EXCEPT ![i] = user], result |-> Ok(user)]

\* Mutant of hash: a digest that does not depend on the password.
MockPasswordHasher_hash_Constant(password) == "mock_hash_"

\* Mutant of verify: a mock that accepts every password.
MockPasswordHasher_verify_AcceptAll(password, hash) == TRUE

\* MockPasswordHasher::hash and ::verify.
MockPasswordHasher_hash(password) == "mock_hash_" \o password
MockPasswordHasher_verify(password, hash) == hash = "mock_hash_" \o password

\* MockTokenService::generate.
MockTokenService_generate(user_id) == Ok("mock_token_" \o user_id)

\* Mutant of set: key and value swapped in the insert.
MockCache_set_Swapped(cache, key, value, ttl) ==
    [k \in DOMAIN cache \cup {value} |-> IF k = value THEN key ELSE cache[k]]

\* Mutant of delete: removes nothing, as the Redis stand-in does.
MockCache_delete_Keep(cache, key) == cache

\* MockCache::get, ::set, ::delete on the HashMap.
MockCache_get(cache, key) ==
    IF key \in DOMAIN cache THEN Some(cache[key]) ELSE None
MockCache_set(cache, key, value, ttl) ==
    [k \in DOMAIN cache \cup {key} |-> IF k = key THEN value ELSE cache[k]]
MockCache_delete(cache, key) ==
    [k \in DOMAIN cache \ {key} |-> cache[k]]

EmptyMap == [k \in {} |-> ""]

\* uuid::Uuid::new_v4().to_string(): a fresh id, never one handed out before and
\* never the id of a seeded user.
Uuid(n) == "uuid-" \o ToString(n)

(***************************************************************************)
(* refactoring_with_di.rs: after::AuthService.  Each operation yields its  *)
(* result, the providers' state after it and the provider calls it made.   *)
(***************************************************************************)
Outcome(result, users, cache, calls) ==
    [result |-> result, users |-> users, cache |-> cache, calls |-> calls]

AuthCacheKey(email) == "user:email:" \o email

\* Mutant of login: a cache hit is trusted, and the token is issued for the
\* cached id without looking the user up or verifying the password.
AuthService_login_TrustCache(users, cache, email, password, fault) ==
    LET cache_key == AuthCacheKey(email)
        cached == MockCache_get(cache, cache_key)
        found == Failing(fault, "repository.find_by_email",
                         AuthRepo_find_by_email(users, email))
        c2 == <<"cache.get", "repository.find_by_email">>
    IN  IF cached.some
        THEN Outcome(MockTokenService_generate(cached.val), users, cache,
                     <<"cache.get", "token_service.generate">>)
        ELSE IF found.tag = "Err" THEN Outcome(found, users, cache, c2)
        ELSE IF ~found.val.some
        THEN Outcome(Err("InvalidCredentials"), users, cache, c2)
        ELSE LET user == found.val.val
                 c3 == Append(c2, "hasher.verify")
             IN  IF ~MockPasswordHasher_verify(password, user.password_hash)
                 THEN Outcome(Err("InvalidCredentials"), users, cache, c3)
                 ELSE Outcome(MockTokenService_generate(user.id), users,
                              MockCache_set(cache, cache_key, user.id,
                                            Some(TtlSeconds)),
                              c3 \o <<"token_service.generate", "cache.set">>)

AuthService_login(users, cache, email, password, fault) ==
    LET cache_key == AuthCacheKey(email)
        cached == MockCache_get(cache, cache_key)   \* read and ignored
        found == Failing(fault, "repository.find_by_email",
                         AuthRepo_find_by_email(users, email))
        c2 == <<"cache.get", "repository.find_by_email">>
    IN  IF found.tag = "Err" THEN Outcome(found, users, cache, c2)
        ELSE IF ~found.val.some
        THEN Outcome(Err("InvalidCredentials"), users, cache, c2)
        ELSE LET user == found.val.val
                 c3 == Append(c2, "hasher.verify")
             IN  IF ~MockPasswordHasher_verify(password, user.password_hash)
                 THEN Outcome(Err("InvalidCredentials"), users, cache, c3)
                 ELSE LET token == Failing(fault, "token_service.generate",
                                            MockTokenService_generate(user.id))
                          c4 == Append(c3, "token_service.generate")
                      IN  IF token.tag = "Err"
                          THEN Outcome(token, users, cache, c4)
                          ELSE Outcome(Ok(token.val), users,
                                       MockCache_set(cache, cache_key, user.id,
                                                     Some(TtlSeconds)),
                                       Append(c4, "cache.set"))

AuthService_register(users, cache, email, password, new_id, fault) ==
    LET found == Failing(fault, "repository.find_by_email",
                         AuthRepo_find_by_email(users, email))
        c1 == <<"repository.find_by_email">>
    IN  IF found.tag = "Err" THEN Outcome(found, users, cache, c1)
        ELSE IF found.val.some
        THEN Outcome(Err("AlreadyExists"), users, cache, c1)
        ELSE LET password_hash == MockPasswordHasher_hash(password)
                 user == AuthUser(new_id, email, password_hash, "user")
                 created == FailingWrite(fault, "repository.create", users,
                                        AuthRepo_create(users, user))
                 c3 == c1 \o <<"hasher.hash", "repository.create">>
             IN  Outcome(created.result, created.users, cache, c3)

\* Mutant of change_password: an unknown key is reported as InvalidCredentials,
\* as login reports it.
AuthService_change_password_AsLogin(users, cache, user_id, old_password, new_password, fault) ==
    LET found == Failing(fault, "repository.find_by_email",
                         AuthRepo_find_by_email(users, user_id))
        c1 == <<"repository.find_by_email">>
    IN  IF found.tag = "Err" THEN Outcome(found, users, cache, c1)
        ELSE IF ~found.val.some
        THEN Outcome(Err("InvalidCredentials"), users, cache, c1)
        ELSE LET user == found.val.val
                 c2 == Append(c1, "hasher.verify")
             IN  IF ~MockPasswordHasher_verify(old_password, user.password_hash)
                 THEN Outcome(Err("InvalidCredentials"), users, cache, c2)
                 ELSE LET new_hash == MockPasswordHasher_hash(new_password)
                          updated_user == [user EXCEPT !.password_hash = new_hash]
                          updated == FailingWrite(fault, "repository.update", users,
                                                  AuthRepo_update(users, updated_user))
                          c4 == c2 \o <<"hasher.hash", "repository.update">>
                      IN  IF updated.result.tag = "Err"
                          THEN Outcome(updated.result, updated.users, cache, c4)
                          ELSE Outcome(Ok(Unit), updated.users,
                                       MockCache_delete(cache, AuthCacheKey(user_id)),
                                       Append(c4, "cache.delete"))

AuthService_change_password(users, cache, user_id, old_password, new_password, fault) ==
    LET found == Failing(fault, "repository.find_by_email",
                         AuthRepo_find_by_email(users, user_id))
        c1 == <<"repository.find_by_email">>
    IN  IF found.tag = "Err" THEN Outcome(found, users, cache, c1)
        ELSE IF ~found.val.some
        THEN Outcome(Err("NotFound"), users, cache, c1)
        ELSE LET user == found.val.val
                 c2 == Append(c1, "hasher.verify")
             IN  IF ~MockPasswordHasher_verify(old_password, user.password_hash)
                 THEN Outcome(Err("InvalidCredentials"), users, cache, c2)
                 ELSE LET new_hash == MockPasswordHasher_hash(new_password)
                          updated_user == [user EXCEPT !.password_hash = new_hash]
                          updated == FailingWrite(fault, "repository.update", users,
                                                  AuthRepo_update(users, updated_user))
                          c4 == c2 \o <<"hasher.hash", "repository.update">>
                      IN  IF updated.result.tag = "Err"
                          THEN Outcome(updated.result, updated.users, cache, c4)
                          ELSE Outcome(Ok(Unit), updated.users,
                                       MockCache_delete(cache, AuthCacheKey(user_id)),
                                       Append(c4, "cache.delete"))

\* What an operation's record keeps of the operation before it.
Summary(l) ==
    IF l.op \in {"async_save", "async_create_user", "basic_create_user"}
    THEN [op |-> l.op, id |-> l.id, name |-> l.name]
    ELSE [op |-> l.op]

\* The harnesses of the other programs: no builder, no service.
NoBuilder == [state |-> "none", repository |-> None]
BasicIdle == builder = NoBuilder /\ service = None /\ supplied = <<>>
\* ... no Arc-shared repository, no AdvancedUserService, no concurrent callers.
AsyncIdle == arc_heap = <<>> /\ repo_handle = 0 /\ async_service = None
\* ... no concurrent callers, no ServiceFactory, no record of a wiring.
NoMutexes == <<>>
NoWiring == [providers |-> <<>>, passed |-> None, service |-> None]
ConcIdle == procs = <<>> /\ mutexes = NoMutexes
WireIdle == wiring = NoWiring /\ factory = None
OthersIdle == AsyncIdle /\ advanced = None /\ ConcIdle /\ WireIdle

(***************************************************************************)
(* AuthServiceFactory::create_test and ::create_test_with_user.            *)
(***************************************************************************)
\* What a test may seed: any id that is no uuid, any email, a digest of a
\* password or a string that is no digest ("hash", as the duplicate-email test
\* does), any role.
SeedHashes == {MockPasswordHasher_hash(p) : p \in Passwords} \cup {"hash"}
AuthSeedUsers ==
    {AuthUser("1", e, h, r) : e \in Emails, h \in SeedHashes, r \in Roles}

\* The error a failing provider of module `after` returns (Error::Internal, which
\* no operation of AuthService builds itself), and the faults of an operation
\* whose calls that return a Result are `calls`.
AuthErrors == {"Internal"}
AuthFaults(calls) ==
    {NoFault} \cup {[call |-> c, err |-> e] : c \in calls, e \in AuthErrors}

\* Mutant of new: the service makes its own cache, as before::AuthService makes
\* its own connections, and drops the one it was given.
AuthService_new_OwnCache(providers, repository, hasher, token_service, cache) ==
    LET own == Arc_new(providers, [kind |-> "RedisCache"])
    IN  [providers |-> own.heap,
         service |-> [repository |-> repository, hasher |-> hasher,
                      token_service |-> token_service, cache |-> own.handle]]

\* AuthService::new: the four handles, stored as given; nothing is allocated.
AuthService_new(providers, repository, hasher, token_service, cache) ==
    [providers |-> providers,
     service |-> [repository |-> repository, hasher |-> hasher,
                  token_service |-> token_service, cache |-> cache]]

\* The body the three functions of AuthServiceFactory share: four Arc::new, then
\* AuthService::new on the four handles.  `users` is what the repository made
\* holds (the mock's Vec; the stand-ins hold nothing).
AuthServiceFactory_create(repository_kind, hasher_kind, token_kind, cache_kind, users) ==
    LET repository == Arc_new(<<>>, [kind |-> repository_kind])
        hasher == Arc_new(repository.heap, [kind |-> hasher_kind])
        token_service == Arc_new(hasher.heap, [kind |-> token_kind])
        cache == Arc_new(token_service.heap, [kind |-> cache_kind])
        made == AuthService_new(cache.heap, repository.handle, hasher.handle,
                                token_service.handle, cache.handle)
    IN  [wiring |-> [providers |-> made.providers,
                     passed |-> Some([repository |-> repository.handle,
                                      hasher |-> hasher.handle,
                                      token_service |-> token_service.handle,
                                      cache |-> cache.handle]),
                     service |-> Some(made.service)],
         users |-> users,
         cache |-> EmptyMap]

\* AuthServiceFactory::create_production, ::create_test, ::create_test_with_user
AuthServiceFactory_create_production ==
    AuthServiceFactory_create("PostgresUserRepository", "BcryptHasher",
                              "JwtTokenService", "RedisCache", <<>>)
AuthServiceFactory_create_test ==
    AuthServiceFactory_create("MockUserRepository", "MockPasswordHasher",
                              "MockTokenService", "MockCache", <<>>)
AuthServiceFactory_create_test_with_user(user) ==
    AuthServiceFactory_create("MockUserRepository", "MockPasswordHasher",
                              "MockTokenService", "MockCache", <<user>>)

\* let service = AuthServiceFactory::create_test(), or ::create_test_with_user
AuthInit ==
    /\ harness = "AuthService"
    /\ \E made \in {AuthServiceFactory_create_test}
                    \cup {AuthServiceFactory_create_test_with_user(u) :
                             u \in AuthSeedUsers} :
        /\ auth_users = made.users
        /\ auth_cache = made.cache
        /\ wiring = made.wiring
    /\ uuid_count = 0
    /\ us_users = <<>> /\ us_cache = EmptyMap
    /\ BasicIdle /\ AsyncIdle /\ advanced = None /\ ConcIdle /\ factory = None
    /\ seeded = auth_users /\ mutated = FALSE
    /\ last = NoOp

Login ==
    /\ harness = "AuthService"
    /\ \E email \in Emails, password \in Passwords,
          fault \in AuthFaults({"repository.find_by_email", "token_service.generate"}) :
        LET o == AuthService_login(auth_users, auth_cache, email, password, fault)
        IN  /\ auth_users' = o.users
            /\ auth_cache' = o.cache
            /\ last' = [op |-> "login", email |-> email, password |-> password,
                        result |-> o.result, calls |-> o.calls,
                        fault |-> Occurred(fault, o.calls),
                        pre_users |-> auth_users, pre_cache |-> auth_cache]
    /\ UNCHANGED <<harness, uuid_count, us_vars, basic_vars, seed_vars, other_vars>>

Register ==
    /\ harness = "AuthService"
    /\ \E email \in Emails, password \in Passwords,
          fault \in AuthFaults({"repository.find_by_email", "repository.create"}) :
        LET o == AuthService_register(auth_users, auth_cache, email, password,
                                      Uuid(uuid_count + 1), fault)
        IN  /\ auth_users' = o.users
            /\ auth_cache' = o.cache
            \* Uuid::new_v4 runs only past the existence check; an id whose
            \* create failed was stored nowhere and is not counted
            /\ uuid_count' = IF o.result.tag = "Ok" THEN uuid_count + 1
                                                    ELSE uuid_count
            /\ last' = [op |-> "register", email |-> email, password |-> password,
                        result |-> o.result, calls |-> o.calls,
                        fault |-> Occurred(fault, o.calls),
                        pre_users |-> auth_users, pre_cache |-> auth_cache]
    /\ mutated' = TRUE /\ seeded' = <<>>
    /\ UNCHANGED <<harness, us_vars, basic_vars, other_vars>>

ChangePassword ==
    /\ harness = "AuthService"
    /\ \E email \in Emails, old \in Passwords, new \in Passwords,
          fault \in AuthFaults({"repository.find_by_email", "repository.update"}) :
        LET o == AuthService_change_password(auth_users, auth_cache, email, old, new,
                                             fault)
        IN  /\ auth_users' = o.users
            /\ auth_cache' = o.cache
            /\ last' = [op |-> "change_password", email |-> email,
                        old_password |-> old, new_password |-> new,
                        result |-> o.result, calls |-> o.calls,
                        fault |-> Occurred(fault, o.calls),
                        pre_users |-> auth_users, pre_cache |-> auth_cache]
    /\ mutated' = TRUE /\ seeded' = <<>>
    /\ UNCHANGED <<harness, uuid_count, us_vars, basic_vars, other_vars>>

(***************************************************************************)
(* real_world_di.rs: MockUserRepository and InMemoryCacheService.          *)
(***************************************************************************)
User(id, email, name) == [id |-> id, email |-> email, name |-> name]

UserIds == {"1", "2"}
UserEmails == {"test@example.com", "existing@example.com"}
UserNames == {"Test User", "New User"}
Users == {User(i, e, n) : i \in UserIds, e \in UserEmails, n \in UserNames}

\* Every Vec<User> of at most n elements.
UserLists(n) == UNION {[1..k -> Users] : k \in 0..n}

\* MockUserRepository::find_by_id: the first user with that id.
UserRepo_find_by_id(users, id) ==
    LET i == FirstById(users, id)
    IN  IF i = 0 THEN Ok(None) ELSE Ok(Some(users[i]))

\* MockUserRepository::find_by_email: the first user with that email.
UserRepo_find_by_email(users, email) ==
    LET i == FirstByEmail(users, email)
    IN  IF i = 0 THEN Ok(None) ELSE Ok(Some(users[i]))

\* Mutant of create: reports Ok without storing, as the Postgres stand-in does.
UserRepo_create_NoPush(users, user) ==
    [users |-> users, result |-> Ok(user)]

\* MockUserRepository::create: push, no check.
UserRepo_create(users, user) ==
    [users |-> Append(users, user), result |-> Ok(user)]

\* Mutant of update: an upsert, which stores the user when its id is missing.
UserRepo_update_Upsert(users, user) ==
    LET i == FirstById(users, user.id)
    IN  IF i = 0
        THEN [users |-> Append(users, user), result |-> Ok(user)]
        ELSE [users |-> [users EXCEPT ![i] = user], result |-> Ok(user)]

\* MockUserRepository::update: replace the first user with that id.
UserRepo_update(users, user) ==
    LET i == FirstById(users, user.id)
    IN  IF i = 0
        THEN [users |-> users, result |-> Err("User not found")]
        ELSE [users |-> [users EXCEPT ![i] = user], result |-> Ok(user)]

\* Mutant of delete: removes only the first user with that id.
UserRepo_delete_FirstOnly(users, id) ==
    LET i == FirstById(users, id)
    IN  [users |-> IF i = 0 THEN users
                   ELSE SubSeq(users, 1, i - 1) \o SubSeq(users, i + 1, Len(users)),
         result |-> Ok(Unit)]

\* Mutant of delete: an id that is not stored is an error, as in update.
UserRepo_delete_ErrWhenAbsent(users, id) ==
    IF FirstById(users, id) = 0
    THEN [users |-> users, result |-> Err("User not found")]
    ELSE [users |-> SelectSeq(users, LAMBDA u : u.id # id), result |-> Ok(Unit)]

\* MockUserRepository::delete: retain the users with another id; always Ok.
UserRepo_delete(users, id) ==
    [users |-> SelectSeq(users, LAMBDA u : u.id # id), result |-> Ok(Unit)]

\* InMemoryCacheService::get, ::set, ::delete on the HashMap.
InMemoryCacheService_get(cache, key) ==
    IF key \in DOMAIN cache THEN Some(cache[key]) ELSE None
InMemoryCacheService_set(cache, key, value, ttl_seconds) ==
    [k \in DOMAIN cache \cup {key} |-> IF k = key THEN value ELSE cache[k]]
InMemoryCacheService_delete(cache, key) ==
    [k \in DOMAIN cache \ {key} |-> cache[k]]

(***************************************************************************)
(* real_world_di.rs: UserService.                                          *)
(***************************************************************************)
UserCacheKey(id) == "user:" \o id

\* Mutant of get_user: the cache is set whether or not a record was found.
UserService_get_user_AlwaysCache(users, cache, id, fault) ==
    LET cache_key == UserCacheKey(id)
        found == Failing(fault, "repository.find_by_id",
                         UserRepo_find_by_id(users, id))
        c2 == <<"cache.get", "repository.find_by_id">>
    IN  IF found.tag = "Err" THEN Outcome(found, users, cache, c2)
        ELSE Outcome(Ok(found.val), users,
                     InMemoryCacheService_set(cache, cache_key, id, Some(TtlSeconds)),
                     Append(c2, "cache.set"))

UserService_get_user(users, cache, id, fault) ==
    LET cache_key == UserCacheKey(id)
        cached == InMemoryCacheService_get(cache, cache_key)  \* a hit only prints
        found == Failing(fault, "repository.find_by_id",
                         UserRepo_find_by_id(users, id))
        c2 == <<"cache.get", "repository.find_by_id">>
    IN  IF found.tag = "Err" THEN Outcome(found, users, cache, c2)
        ELSE IF found.val.some
        THEN Outcome(Ok(found.val), users,
                     InMemoryCacheService_set(cache, cache_key, found.val.val.id,
                                              Some(TtlSeconds)),
                     Append(c2, "cache.set"))
        ELSE Outcome(Ok(found.val), users, cache, c2)

UserService_create_user(users, cache, user, fault) ==
    LET found == Failing(fault, "repository.find_by_email",
                         UserRepo_find_by_email(users, user.email))
        c1 == <<"repository.find_by_email">>
    IN  IF found.tag = "Err" THEN Outcome(found, users, cache, c1)
        ELSE IF found.val.some
        THEN Outcome(Err("Email already exists"), users, cache, c1)
        ELSE LET created == FailingWrite(fault, "repository.create", users,
                                        UserRepo_create(users, user))
                 c2 == Append(c1, "repository.create")
             IN  IF created.result.tag = "Err"
                 THEN Outcome(created.result, created.users, cache, c2)
                 ELSE LET created_user == created.result.val
                      IN  Outcome(Ok(created_user), created.users,
                                  InMemoryCacheService_set(
                                      cache, UserCacheKey(created_user.id),
                                      created_user.id, Some(TtlSeconds)),
                                  Append(c2, "cache.set"))

\* Mutant of delete_user: the cache entry is invalidated whatever the repository
\* answered.
UserService_delete_user_AlwaysInvalidate(users, cache, id, fault) ==
    LET deleted == FailingWrite(fault, "repository.delete", users,
                                   UserRepo_delete(users, id))
    IN  Outcome(deleted.result, deleted.users,
                InMemoryCacheService_delete(cache, UserCacheKey(id)),
                <<"repository.delete", "cache.delete">>)

UserService_delete_user(users, cache, id, fault) ==
    LET deleted == FailingWrite(fault, "repository.delete", users,
                                   UserRepo_delete(users, id))
        c1 == <<"repository.delete">>
    IN  IF deleted.result.tag = "Err"
        THEN Outcome(deleted.result, deleted.users, cache, c1)
        ELSE Outcome(Ok(Unit), deleted.users,
                     InMemoryCacheService_delete(cache, UserCacheKey(id)),
                     Append(c1, "cache.delete"))

\* The error a failing repository of real_world_di returns (a String that no
\* operation of UserService builds itself), and the faults of an operation whose
\* calls that return a Result are `calls`.
UserErrors == {"connection refused"}
UserFaults(calls) ==
    {NoFault} \cup {[call |-> c, err |-> e] : c \in calls, e \in UserErrors}

\* ServiceFactory::build_test_user_service(mock_users): the given Vec, an empty
\* cache.
UserInit ==
    /\ harness = "UserService"
    /\ us_users \in UserLists(MaxUsers)
    /\ us_cache = EmptyMap
    /\ auth_users = <<>> /\ auth_cache = EmptyMap /\ uuid_count = 0
    /\ BasicIdle /\ OthersIdle
    /\ seeded = us_users /\ mutated = FALSE
    /\ last = NoOp

GetUser ==
    /\ harness = "UserService"
    /\ \E id \in UserIds, fault \in UserFaults({"repository.find_by_id"}) :
        LET o == UserService_get_user(us_users, us_cache, id, fault)
        IN  /\ us_users' = o.users
            /\ us_cache' = o.cache
            /\ last' = [op |-> "get_user", id |-> id,
                        result |-> o.result, calls |-> o.calls,
                        fault |-> Occurred(fault, o.calls),
                        pre_users |-> us_users, pre_cache |-> us_cache]
    /\ UNCHANGED <<harness, auth_vars, basic_vars, seed_vars, other_vars>>

CreateUser ==
    /\ harness = "UserService"
    /\ \E user \in Users,
          fault \in UserFaults({"repository.find_by_email", "repository.create"}) :
        LET o == UserService_create_user(us_users, us_cache, user, fault)
        IN  /\ Len(o.users) <= MaxUsers
            /\ us_users' = o.users
            /\ us_cache' = o.cache
            /\ last' = [op |-> "create_user", user |-> user,
                        result |-> o.result, calls |-> o.calls,
                        fault |-> Occurred(fault, o.calls),
                        pre_users |-> us_users, pre_cache |-> us_cache]
    /\ mutated' = TRUE /\ seeded' = <<>>
    /\ UNCHANGED <<harness, auth_vars, basic_vars, other_vars>>

DeleteUser ==
    /\ harness = "UserService"
    /\ \E id \in UserIds, fault \in UserFaults({"repository.delete"}) :
        LET o == UserService_delete_user(us_users, us_cache, id, fault)
        IN  /\ us_users' = o.users
            /\ us_cache' = o.cache
            /\ last' = [op |-> "delete_user", id |-> id,
                        result |-> o.result, calls |-> o.calls,
                        fault |-> Occurred(fault, o.calls),
                        pre_users |-> us_users, pre_cache |-> us_cache]
    /\ mutated' = TRUE /\ seeded' = <<>>
    /\ UNCHANGED <<harness, auth_vars, basic_vars, other_vars>>

(***************************************************************************)
(* real_world_di.rs: the MockUserRepository called directly.               *)
(***************************************************************************)
\* MockUserRepository::new() or ::with_users(users).
RepoInit ==
    /\ harness = "MockUserRepository"
    /\ us_users \in UserLists(MaxUsers)
    /\ us_cache = EmptyMap
    /\ auth_users = <<>> /\ auth_cache = EmptyMap /\ uuid_count = 0
    /\ BasicIdle /\ OthersIdle
    /\ seeded = us_users /\ mutated = FALSE
    /\ last = NoOp

RepoCreate ==
    /\ harness = "MockUserRepository"
    /\ Len(us_users) < MaxUsers
    /\ \E user \in Users :
        LET r == UserRepo_create(us_users, user)
        IN  /\ us_users' = r.users
            /\ last' = [op |-> "create", user |-> user, result |-> r.result,
                        pre_users |-> us_users]
    /\ mutated' = TRUE /\ seeded' = <<>>
    /\ UNCHANGED <<harness, auth_vars, us_cache, basic_vars, other_vars>>

RepoUpdate ==
    /\ harness = "MockUserRepository"
    /\ \E user \in Users :
        LET r == UserRepo_update(us_users, user)
        IN  /\ us_users' = r.users
            /\ last' = [op |-> "update", user |-> user, result |-> r.result,
                        pre_users |-> us_users]
    /\ mutated' = TRUE /\ seeded' = <<>>
    /\ UNCHANGED <<harness, auth_vars, us_cache, basic_vars, other_vars>>

RepoDelete ==
    /\ harness = "MockUserRepository"
    /\ \E id \in UserIds :
        LET r == UserRepo_delete(us_users, id)
        IN  /\ us_users' = r.users
            /\ last' = [op |-> "delete", id |-> id, result |-> r.result,
                        pre_users |-> us_users]
    /\ mutated' = TRUE /\ seeded' = <<>>
    /\ UNCHANGED <<harness, auth_vars, us_cache, basic_vars, other_vars>>

(***************************************************************************)
(* dependency_inversion.rs: UserRepository implementations, UserService<R> *)
(* and UserServiceBuilder<R>.                                              *)
(***************************************************************************)
BasicIds == {1, 2}
BasicNames == {"Alice", "Bob"}

\* InMemoryUserRepository { users: HashMap<u32, String> }
InMemoryUserRepository(users) == [kind |-> "InMemory", users |-> users]
\* MockUserRepository { should_fail }
BasicMockUserRepository(should_fail) == [kind |-> "Mock", should_fail |-> should_fail]

\* Mutant of find_by_id: the mock ignores should_fail.
BasicRepo_find_by_id_IgnoreFlag(repository, id) ==
    IF repository.kind = "InMemory"
    THEN IF id \in DOMAIN repository.users
         THEN Some(repository.users[id]) ELSE None
    ELSE Some("Mock User")

\* <impl UserRepository>::find_by_id, for either implementation.
BasicRepo_find_by_id(repository, id) ==
    IF repository.kind = "InMemory"
    THEN IF id \in DOMAIN repository.users
         THEN Some(repository.users[id]) ELSE None
    ELSE IF repository.should_fail THEN None ELSE Some("Mock User")

\* Mutant of save: HashMap::entry(id).or_insert(name), which keeps an earlier
\* name.
BasicRepo_save_KeepFirst(repository, id, name) ==
    IF repository.kind = "InMemory"
    THEN InMemoryUserRepository(
             [k \in DOMAIN repository.users \cup {id} |->
                 IF k \in DOMAIN repository.users
                 THEN repository.users[k] ELSE name])
    ELSE repository

\* <impl UserRepository>::save, for either implementation.
BasicRepo_save(repository, id, name) ==
    IF repository.kind = "InMemory"
    THEN InMemoryUserRepository(
             [k \in DOMAIN repository.users \cup {id} |->
                 IF k = id THEN name ELSE repository.users[k]])
    ELSE repository

\* UserService::new, ::get_user, ::create_user.
BasicUserService_new(repository) == [repository |-> repository]
BasicUserService_get_user(svc, id) == BasicRepo_find_by_id(svc.repository, id)
BasicUserService_create_user(svc, id, name) ==
    [svc EXCEPT !.repository = BasicRepo_save(svc.repository, id, name)]

\* UserServiceBuilder::new, ::with_repository, ::build.
UserServiceBuilder_new == [state |-> "open", repository |-> None]

\* Mutant of with_repository: a repository already set is kept.
UserServiceBuilder_with_repository_KeepFirst(self, repository) ==
    IF self.repository.some THEN self
    ELSE [self EXCEPT !.repository = Some(repository)]

UserServiceBuilder_with_repository(self, repository) ==
    [self EXCEPT !.repository = Some(repository)]
UserServiceBuilder_build(self) ==
    IF self.repository.some
    THEN Ok(BasicUserService_new(self.repository.val))
    ELSE Err("Repository not set")

\* The repositories a caller may hand to a builder of type R: a new one, or one
\* it has already saved into.
EmptyUsers == [k \in {} |-> ""]
RepositoriesOf(R) ==
    IF R = "InMemory"
    THEN {InMemoryUserRepository(EmptyUsers)}
         \cup {InMemoryUserRepository([k \in {1} |-> n]) : n \in BasicNames}
    ELSE {BasicMockUserRepository(b) : b \in BOOLEAN}

\* The harness starts with UserServiceBuilder::<R>::new() for one R.
BuilderInit ==
    /\ harness \in {"UserServiceBuilder<InMemoryUserRepository>",
                    "UserServiceBuilder<MockUserRepository>"}
    /\ builder = UserServiceBuilder_new
    /\ service = None
    /\ supplied = <<>>
    /\ auth_users = <<>> /\ auth_cache = EmptyMap /\ uuid_count = 0
    /\ us_users = <<>> /\ us_cache = EmptyMap
    /\ OthersIdle
    /\ seeded = <<>> /\ mutated = FALSE
    /\ last = NoOp

BuilderHarness ==
    harness \in {"UserServiceBuilder<InMemoryUserRepository>",
                 "UserServiceBuilder<MockUserRepository>"}
HarnessR ==
    IF harness = "UserServiceBuilder<InMemoryUserRepository>"
    THEN "InMemory" ELSE "Mock"

BuilderNew ==
    /\ BuilderHarness
    /\ builder.state = "moved"
    /\ builder' = UserServiceBuilder_new
    /\ supplied' = <<>>
    /\ last' = [op |-> "builder_new"]
    /\ UNCHANGED <<harness, auth_vars, us_vars, service, seed_vars, other_vars>>

WithRepository ==
    /\ BuilderHarness
    /\ builder.state = "open"
    /\ Len(supplied) < MaxSupplied
    /\ \E repository \in RepositoriesOf(HarnessR) :
        /\ builder' = UserServiceBuilder_with_repository(builder, repository)
        /\ supplied' = Append(supplied, repository)
        /\ last' = [op |-> "with_repository", repository |-> repository]
    /\ UNCHANGED <<harness, auth_vars, us_vars, service, seed_vars, other_vars>>

\* build(self) consumes the builder.
Build ==
    /\ BuilderHarness
    /\ builder.state = "open"
    /\ LET r == UserServiceBuilder_build(builder)
       IN  /\ service' = IF r.tag = "Ok" THEN Some(r.val) ELSE service
           /\ last' = [op |-> "build", result |-> r, supplied |-> supplied]
    /\ builder' = [builder EXCEPT !.state = "moved"]
    /\ UNCHANGED <<harness, auth_vars, us_vars, supplied, seed_vars, other_vars>>

BasicGetUser ==
    /\ BuilderHarness
    /\ service.some
    /\ \E id \in BasicIds :
        last' = [op |-> "basic_get_user", id |-> id,
                 result |-> BasicUserService_get_user(service.val, id),
                 prev |-> Summary(last)]
    /\ UNCHANGED <<harness, auth_vars, us_vars, basic_vars, seed_vars, other_vars>>

BasicCreateUser ==
    /\ BuilderHarness
    /\ service.some
    /\ \E id \in BasicIds, name \in BasicNames :
        /\ service' = Some(BasicUserService_create_user(service.val, id, name))
        /\ last' = [op |-> "basic_create_user", id |-> id, name |-> name,
                    pre_service |-> service.val]
    /\ UNCHANGED <<harness, auth_vars, us_vars, builder, supplied, seed_vars, other_vars>>

(***************************************************************************)
(* dependency_inversion.rs: AsyncInMemoryRepository behind an Arc, and the *)
(* AsyncUserService that holds a handle of it (test_async_repository).     *)
(* An Arc handle is the address of its allocation in arc_heap.             *)
(***************************************************************************)
\* AsyncInMemoryRepository::new, ::find_by_id, ::save, through a handle.  The
\* sleep before the lock changes nothing; the map is read or written under the
\* Mutex in one step.
AsyncInMemoryRepository_new == EmptyUsers
AsyncRepo_find_by_id(heap, handle, id) ==
    IF id \in DOMAIN heap[handle] THEN Some(heap[handle][id]) ELSE None
AsyncRepo_save(heap, handle, id, name) ==
    LET users == heap[handle]
    IN  [heap EXCEPT ![handle] =
            [k \in DOMAIN users \cup {id} |-> IF k = id THEN name ELSE users[k]]]

\* AsyncUserService::new, ::get_user, ::create_user.
AsyncUserService_new(repository) == [repository |-> repository]
AsyncUserService_get_user(heap, svc, id) ==
    AsyncRepo_find_by_id(heap, svc.repository, id)
AsyncUserService_create_user(heap, svc, id, name) ==
    AsyncRepo_save(heap, svc.repository, id, name)

\* let repo = Arc::new(AsyncInMemoryRepository::new());
\* let service = AsyncUserService::new(repo.clone());
AsyncInit ==
    /\ harness = "AsyncUserService"
    /\ LET repo == Arc_new(<<>>, AsyncInMemoryRepository_new)
           cloned == Arc_clone(repo.heap, repo.handle)
       IN  /\ arc_heap = cloned.heap
           /\ repo_handle = repo.handle
           /\ async_service = Some(AsyncUserService_new(cloned.handle))
    /\ advanced = None /\ ConcIdle /\ WireIdle
    /\ auth_users = <<>> /\ auth_cache = EmptyMap /\ uuid_count = 0
    /\ us_users = <<>> /\ us_cache = EmptyMap
    /\ BasicIdle
    /\ seeded = <<>> /\ mutated = FALSE
    /\ last = NoOp

\* repo.save(id, name).await through the test's own handle
AsyncRepoSave ==
    /\ harness = "AsyncUserService"
    /\ \E id \in BasicIds, name \in BasicNames :
        /\ arc_heap' = AsyncRepo_save(arc_heap, repo_handle, id, name)
        /\ last' = [op |-> "async_save", id |-> id, name |-> name,
                    prev |-> Summary(last)]
    /\ UNCHANGED <<harness, auth_vars, us_vars, basic_vars, seed_vars,
                   repo_handle, async_service, advanced, conc_vars, wire_vars>>

\* repo.find_by_id(id).await through the test's own handle
AsyncRepoFind ==
    /\ harness = "AsyncUserService"
    /\ \E id \in BasicIds :
        last' = [op |-> "async_find", id |-> id,
                 result |-> AsyncRepo_find_by_id(arc_heap, repo_handle, id),
                 prev |-> Summary(last)]
    /\ UNCHANGED <<harness, auth_vars, us_vars, basic_vars, seed_vars,
                   async_vars, advanced, conc_vars, wire_vars>>

\* service.get_user(id).await
AsyncGetUser ==
    /\ harness = "AsyncUserService"
    /\ \E id \in BasicIds :
        last' = [op |-> "async_get_user", id |-> id,
                 result |-> AsyncUserService_get_user(arc_heap, async_service.val, id),
                 prev |-> Summary(last)]
    /\ UNCHANGED <<harness, auth_vars, us_vars, basic_vars, seed_vars,
                   async_vars, advanced, conc_vars, wire_vars>>

\* service.create_user(id, name).await
AsyncCreateUser ==
    /\ harness = "AsyncUserService"
    /\ \E id \in BasicIds, name \in BasicNames :
        /\ arc_heap' = AsyncUserService_create_user(arc_heap, async_service.val,
                                                    id, name)
        /\ last' = [op |-> "async_create_user", id |-> id, name |-> name,
                    prev |-> Summary(last)]
    /\ UNCHANGED <<harness, auth_vars, us_vars, basic_vars, seed_vars,
                   repo_handle, async_service, advanced, conc_vars, wire_vars>>

(***************************************************************************)
(* dependency_inversion.rs: MockLogger and AdvancedUserService<R, L>.      *)
(***************************************************************************)
\* MockLogger::new, ::get_messages.
MockLogger_new == <<>>
MockLogger_get_messages(messages) == messages

\* Mutant of log: the message is inserted at the front.
MockLogger_log_Prepend(messages, message) == <<message>> \o messages

\* <MockLogger as Logger>::log: push.
MockLogger_log(messages, message) == Append(messages, message)

\* AdvancedUserService::new and ::get_user; get_user yields the value returned
\* and the logger's messages afterwards.
AdvancedUserService_new(repository, logger) ==
    [repository |-> repository, logger |-> logger]
AdvancedUserService_get_user(self, id) ==
    LET fetching == MockLogger_log(self.logger,
                                   "Fetching user with id: " \o ToString(id))
        user == BasicRepo_find_by_id(self.repository, id)
    IN  [result |-> user,
         logger |-> IF user.some THEN MockLogger_log(fetching, "User found")
                    ELSE MockLogger_log(fetching, "User not found")]

\* Most get_user calls on one AdvancedUserService.
MaxLoggedCalls == 2

\* AdvancedUserService::new(repo, MockLogger::new()), for a repository of either
\* implementation.
AdvancedInit ==
    /\ harness = "AdvancedUserService"
    /\ \E repository \in RepositoriesOf("InMemory") \cup RepositoriesOf("Mock") :
          advanced = Some(AdvancedUserService_new(repository, MockLogger_new))
    /\ AsyncIdle /\ ConcIdle /\ WireIdle
    /\ auth_users = <<>> /\ auth_cache = EmptyMap /\ uuid_count = 0
    /\ us_users = <<>> /\ us_cache = EmptyMap
    /\ BasicIdle
    /\ seeded = <<>> /\ mutated = FALSE
    /\ last = NoOp

AdvancedGetUser ==
    /\ harness = "AdvancedUserService"
    /\ Len(advanced.val.logger) < 2 * MaxLoggedCalls
    /\ \E id \in BasicIds :
        LET o == AdvancedUserService_get_user(advanced.val, id)
        IN  /\ advanced' = Some([advanced.val EXCEPT !.logger = o.logger])
            /\ last' = [op |-> "advanced_get_user", id |-> id, result |-> o.result,
                        pre_messages |-> MockLogger_get_messages(advanced.val.logger)]
    /\ UNCHANGED <<harness, auth_vars, us_vars, basic_vars, seed_vars,
                   async_vars, conc_vars, wire_vars>>

(***************************************************************************)
(* refactoring_with_di.rs: concurrent callers of one AuthService.  The     *)
(* service is Send + Sync, so tasks on several threads may each be inside  *)
(* register at once.  A caller's register is two steps, one per repository *)
(* call: each call takes the Mutex of the Vec, reads or pushes, and        *)
(* releases it, and nothing is held between the two.                       *)
(***************************************************************************)
NumCallers == 2

\* A caller about to run register(email, password).
Caller(email, password) ==
    [pc |-> "find_by_email", email |-> email, password |-> password,
     result |-> Ok(None)]

\* create_test(), shared by NumCallers tasks that each call register once.
ConcurrentInit ==
    /\ harness = "AuthService, concurrent callers"
    /\ auth_users = <<>> /\ auth_cache = EmptyMap /\ uuid_count = 0
    /\ procs \in [1..NumCallers -> {Caller(e, "password123") : e \in Emails}]
    /\ AsyncIdle /\ advanced = None /\ mutexes = NoMutexes /\ WireIdle
    /\ us_users = <<>> /\ us_cache = EmptyMap
    /\ BasicIdle
    /\ seeded = <<>> /\ mutated = FALSE
    /\ last = NoOp

\* register, up to `if let Some(_) = self.repository.find_by_email(email).await?`
RegisterFind(p) ==
    /\ harness = "AuthService, concurrent callers"
    /\ procs[p].pc = "find_by_email"
    /\ LET found == AuthRepo_find_by_email(auth_users, procs[p].email)
       IN  procs' = [procs EXCEPT ![p] =
                       IF found.val.some
                       THEN [@ EXCEPT !.pc = "returned",
                                      !.result = Err("AlreadyExists")]
                       ELSE [@ EXCEPT !.pc = "create"]]
    /\ UNCHANGED <<harness, auth_vars, us_vars, basic_vars, seed_vars,
                   async_vars, advanced, mutexes, wire_vars, last>>

\* register, from the hash to `Ok(created_user)`
RegisterCreate(p) ==
    /\ harness = "AuthService, concurrent callers"
    /\ procs[p].pc = "create"
    /\ LET user == AuthUser(Uuid(uuid_count + 1), procs[p].email,
                            MockPasswordHasher_hash(procs[p].password), "user")
           created == AuthRepo_create(auth_users, user)
       IN  /\ auth_users' = created.users
           /\ uuid_count' = uuid_count + 1
           /\ procs' = [procs EXCEPT ![p] =
                           [@ EXCEPT !.pc = "returned", !.result = created.result]]
    /\ UNCHANGED <<harness, auth_cache, us_vars, basic_vars, seed_vars,
                   async_vars, advanced, mutexes, wire_vars, last>>

(***************************************************************************)
(* Concurrent callers at the level of the providers' locks.  Every         *)
(* in-memory provider keeps its collection in a std::sync::Mutex and takes *)
(* the lock inside each of its methods, for one statement or to the end of *)
(* the method; no method awaits while it holds the guard.  A task is at an *)
(* await (`at` = "await": between two provider calls, or in the sleep of   *)
(* AsyncInMemoryRepository) or inside a critical section (`at` =           *)
(* "locked"), `pc` being the provider call it makes next or is in.         *)
(* `view` is the collection as the task found it when it took the lock.    *)
(***************************************************************************)
Unlocked == 0

\* Mutant of lock: no mutual exclusion, as with an UnsafeCell in place of the
\* Mutex.
Mutex_can_lock_Always(holder) == TRUE

\* Mutant of lock: a guard that was leaked (mem::forget) keeps every caller out.
Mutex_can_lock_Never(holder) == FALSE

\* Mutex::lock returns when no other guard is alive.
Mutex_can_lock(holder) == holder = Unlocked
Mutex_lock(holder, p) == p

\* Mutant of the guard's drop: the guard is kept across the next await.
Mutex_unlock_Leak(holder) == holder

\* MutexGuard::drop, at the end of the statement or of the method.
Mutex_unlock(holder) == Unlocked

\* One Mutex per provider that has one.
Mutex_new == [repository |-> Unlocked, cache |-> Unlocked]

RepositoryCalls ==
    {"repository.find_by_id", "repository.find_by_email", "repository.create",
     "repository.update", "repository.delete", "repository.save"}
CacheCalls == {"cache.get", "cache.set", "cache.delete"}
MutexOf(pc) ==
    IF pc \in RepositoryCalls THEN "repository"
    ELSE IF pc \in CacheCalls THEN "cache"
    ELSE "none"

\* A task that has not started: `first` is the first thing it does.
Task(op, arg, first) ==
    [op |-> op, arg |-> arg, pc |-> first, at |-> "await",
     view |-> None, local |-> None, result |-> None]

\* The task's call returns `result`; the task goes on to its next provider
\* call, keeping `local`.
Returned(t, result) ==
    [t EXCEPT !.pc = "returned", !.at = "await", !.view = None,
              !.result = Some(result)]
Goes(t, pc, local) ==
    [t EXCEPT !.pc = pc, !.at = "await", !.view = None, !.local = local]
Effect(data, task) == [data |-> data, task |-> task]

(***************************************************************************)
(* The providers called directly by NumCallers tasks that share one Arc:   *)
(* ThreadSafeInMemoryRepository and AsyncInMemoryRepository of             *)
(* dependency_inversion.rs, InMemoryCacheService of real_world_di.rs.      *)
(***************************************************************************)
ProviderHarnesses ==
    {"ThreadSafeInMemoryRepository, concurrent callers",
     "AsyncInMemoryRepository, concurrent callers",
     "InMemoryCacheService, concurrent callers"}

CacheKeys == {UserCacheKey(id) : id \in UserIds}

\* The calls a task may make on the repository and on the cache.
\* A call on AsyncInMemoryRepository starts in its sleep.
FirstOf(sleeps, op) == IF sleeps THEN "sleep" ELSE op
RepositoryTasks(sleeps) ==
    {Task("repository.find_by_id", [id |-> id],
          FirstOf(sleeps, "repository.find_by_id")) : id \in BasicIds}
    \cup {Task("repository.save", [id |-> id, name |-> name],
               FirstOf(sleeps, "repository.save")) :
             id \in BasicIds, name \in BasicNames}
CacheTasks ==
    {Task("cache.get", [key |-> key], "cache.get") : key \in CacheKeys}
    \cup {Task("cache.delete", [key |-> key], "cache.delete") : key \in CacheKeys}
    \cup {Task("cache.set", [key |-> key, value |-> value], "cache.set") :
             key \in CacheKeys, value \in UserIds}

\* The critical section of one provider method on the collection `map`:
\* HashMap::get(..).cloned(), ::insert, ::remove.
ProviderEffect(map, t) ==
    IF t.op = "repository.find_by_id"
    THEN Effect(map, Returned(t, BasicRepo_find_by_id(InMemoryUserRepository(map),
                                                      t.arg.id)))
    ELSE IF t.op = "repository.save"
    THEN Effect(BasicRepo_save(InMemoryUserRepository(map), t.arg.id,
                               t.arg.name).users,
                Returned(t, Unit))
    ELSE IF t.op = "cache.get"
    THEN Effect(map, Returned(t, InMemoryCacheService_get(map, t.arg.key)))
    ELSE IF t.op = "cache.set"
    THEN Effect(InMemoryCacheService_set(map, t.arg.key, t.arg.value, None),
                Returned(t, Unit))
    ELSE Effect(InMemoryCacheService_delete(map, t.arg.key), Returned(t, Unit))

ProviderInit ==
    /\ harness \in ProviderHarnesses
    /\ arc_heap = IF harness = "InMemoryCacheService, concurrent callers"
                  THEN <<>> ELSE <<EmptyUsers>>
    /\ repo_handle = Len(arc_heap)
    /\ async_service = None
    /\ us_users = <<>> /\ us_cache = EmptyMap
    /\ procs \in [1..NumCallers ->
          IF harness = "InMemoryCacheService, concurrent callers"
          THEN CacheTasks
          ELSE IF harness = "AsyncInMemoryRepository, concurrent callers"
          THEN RepositoryTasks(TRUE)
          ELSE RepositoryTasks(FALSE)]
    /\ mutexes = Mutex_new
    /\ auth_users = <<>> /\ auth_cache = EmptyMap /\ uuid_count = 0
    /\ BasicIdle /\ advanced = None /\ WireIdle
    /\ seeded = <<>> /\ mutated = FALSE
    /\ last = NoOp

(***************************************************************************)
(* real_world_di.rs: one UserService on the test wiring, shared by         *)
(* NumCallers tasks that each call one operation.                          *)
(***************************************************************************)
ConcUser == User("1", "test@example.com", "Test User")
UserTasks ==
    {Task("get_user", [id |-> id], "cache.get") : id \in UserIds}
    \cup {Task("delete_user", [id |-> id], "repository.delete") : id \in UserIds}
    \cup {Task("create_user", [user |-> [ConcUser EXCEPT !.id = id]],
               "repository.find_by_email") : id \in UserIds}

\* UserService::get_user, ::create_user and ::delete_user, from the return of
\* one provider call to the next call: `data` is what the provider called
\* last holds.
UserEffect(data, t) ==
    IF t.op = "get_user"
    THEN IF t.pc = "cache.get"
         THEN Effect(data, Goes(t, "repository.find_by_id",
                                InMemoryCacheService_get(data, UserCacheKey(t.arg.id))))
         ELSE IF t.pc = "repository.find_by_id"
         THEN LET user == UserRepo_find_by_id(data, t.arg.id).val
              IN  IF user.some
                  THEN Effect(data, Goes(t, "cache.set", user))
                  ELSE Effect(data, Returned(t, Ok(user)))
         ELSE Effect(InMemoryCacheService_set(data, UserCacheKey(t.arg.id),
                                              t.local.val.id, Some(TtlSeconds)),
                     Returned(t, Ok(t.local)))
    ELSE IF t.op = "create_user"
    THEN IF t.pc = "repository.find_by_email"
         THEN IF UserRepo_find_by_email(data, t.arg.user.email).val.some
              THEN Effect(data, Returned(t, Err("Email already exists")))
              ELSE Effect(data, Goes(t, "repository.create", None))
         ELSE IF t.pc = "repository.create"
         THEN LET created == UserRepo_create(data, t.arg.user)
              IN  Effect(created.users, Goes(t, "cache.set", Some(created.result.val)))
         ELSE Effect(InMemoryCacheService_set(data, UserCacheKey(t.local.val.id),
                                              t.local.val.id, Some(TtlSeconds)),
                     Returned(t, Ok(t.local.val)))
    ELSE IF t.pc = "repository.delete"
         THEN Effect(UserRepo_delete(data, t.arg.id).users,
                     Goes(t, "cache.delete", None))
         ELSE Effect(InMemoryCacheService_delete(data, UserCacheKey(t.arg.id)),
                     Returned(t, Ok(Unit)))

\* ServiceFactory::build_test_user_service(vec![]) or (vec![user])
UserConcInit ==
    /\ harness = "UserService, concurrent callers"
    /\ us_users \in {<<>>, <<ConcUser>>}
    /\ us_cache = EmptyMap
    /\ procs \in [1..NumCallers -> UserTasks]
    /\ mutexes = Mutex_new
    /\ auth_users = <<>> /\ auth_cache = EmptyMap /\ uuid_count = 0
    /\ BasicIdle /\ AsyncIdle /\ advanced = None /\ WireIdle
    /\ seeded = <<>> /\ mutated = FALSE
    /\ last = NoOp

(***************************************************************************)
(* refactoring_with_di.rs: one AuthService on the test wiring, shared by   *)
(* NumCallers tasks that each call one operation.  The hasher is called    *)
(* without an await; MockTokenService::generate is awaited and takes no    *)
(* lock.                                                                   *)
(***************************************************************************)
ConcAuthUser ==
    AuthUser("1", EmailOf(1), MockPasswordHasher_hash("password123"), "user")
AuthTasks ==
    {Task("login", [email |-> ConcAuthUser.email, password |-> password],
          "cache.get") : password \in Passwords}
    \cup
    {Task("register", [email |-> ConcAuthUser.email, password |-> "password123"],
          "repository.find_by_email"),
     Task("change_password",
          [email |-> ConcAuthUser.email, old_password |-> "password123",
           new_password |-> "new_password"],
          "repository.find_by_email")}

\* AuthService::login, ::register and ::change_password, from the return of one
\* provider call to the next call; new_id is what Uuid::new_v4 gives register.
AuthEffect(data, t, new_id) ==
    IF t.op = "login"
    THEN IF t.pc = "cache.get"
         THEN Effect(data, Goes(t, "repository.find_by_email", None))
         ELSE IF t.pc = "repository.find_by_email"
         THEN LET found == AuthRepo_find_by_email(data, t.arg.email).val
              IN  IF ~found.some
                  THEN Effect(data, Returned(t, Err("InvalidCredentials")))
                  ELSE IF ~MockPasswordHasher_verify(t.arg.password,
                                                     found.val.password_hash)
                  THEN Effect(data, Returned(t, Err("InvalidCredentials")))
                  ELSE Effect(data, Goes(t, "token_service.generate",
                                         Some([user |-> found.val])))
         ELSE IF t.pc = "token_service.generate"
         THEN LET token == MockTokenService_generate(t.local.val.user.id)
              IN  Effect(data, Goes(t, "cache.set",
                                    Some([user |-> t.local.val.user,
                                          token |-> token.val])))
         ELSE Effect(MockCache_set(data, AuthCacheKey(t.arg.email),
                                   t.local.val.user.id, Some(TtlSeconds)),
                     Returned(t, Ok(t.local.val.token)))
    ELSE IF t.op = "register"
    THEN IF t.pc = "repository.find_by_email"
         THEN IF AuthRepo_find_by_email(data, t.arg.email).val.some
              THEN Effect(data, Returned(t, Err("AlreadyExists")))
              ELSE Effect(data, Goes(t, "repository.create", None))
         ELSE LET user == AuthUser(new_id, t.arg.email,
                                   MockPasswordHasher_hash(t.arg.password), "user")
                  created == AuthRepo_create(data, user)
              IN  Effect(created.users, Returned(t, created.result))
    ELSE IF t.pc = "repository.find_by_email"
         THEN LET found == AuthRepo_find_by_email(data, t.arg.email).val
              IN  IF ~found.some
                  THEN Effect(data, Returned(t, Err("NotFound")))
                  ELSE IF ~MockPasswordHasher_verify(t.arg.old_password,
                                                     found.val.password_hash)
                  THEN Effect(data, Returned(t, Err("InvalidCredentials")))
                  ELSE Effect(data, Goes(t, "repository.update",
                           Some([found.val EXCEPT !.password_hash =
                                   MockPasswordHasher_hash(t.arg.new_password)])))
         ELSE IF t.pc = "repository.update"
         THEN LET updated == AuthRepo_update(data, t.local.val)
              IN  IF updated.result.tag = "Err"
                  THEN Effect(updated.users, Returned(t, updated.result))
                  ELSE Effect(updated.users, Goes(t, "cache.delete", None))
         ELSE Effect(MockCache_delete(data, AuthCacheKey(t.arg.email)),
                     Returned(t, Ok(Unit)))

\* AuthServiceFactory::create_test() or ::create_test_with_user(user)
AuthConcInit ==
    /\ harness = "AuthService, concurrent operations"
    /\ auth_users \in {<<>>, <<ConcAuthUser>>}
    /\ auth_cache = EmptyMap
    /\ uuid_count = 0
    /\ procs \in [1..NumCallers -> AuthTasks]
    /\ mutexes = Mutex_new
    /\ us_users = <<>> /\ us_cache = EmptyMap
    /\ BasicIdle /\ AsyncIdle /\ advanced = None /\ WireIdle
    /\ seeded = <<>> /\ mutated = FALSE
    /\ last = NoOp

(***************************************************************************)
(* The steps of a task, for every harness of concurrent callers.           *)
(***************************************************************************)
LockHarnesses ==
    ProviderHarnesses \cup {"UserService, concurrent callers",
                            "AuthService, concurrent operations"}

\* The collection behind the Mutex m of this harness.
Guarded(m) ==
    IF harness = "UserService, concurrent callers"
    THEN IF m = "repository" THEN us_users ELSE us_cache
    ELSE IF harness = "AuthService, concurrent operations"
    THEN IF m = "repository" THEN auth_users ELSE auth_cache
    ELSE IF harness = "InMemoryCacheService, concurrent callers"
    THEN us_cache
    ELSE arc_heap[repo_handle]

\* What task t does next, on the collection `data`.
TaskEffect(data, t) ==
    IF harness = "UserService, concurrent callers" THEN UserEffect(data, t)
    ELSE IF harness = "AuthService, concurrent operations"
    THEN AuthEffect(data, t, Uuid(uuid_count + 1))
    ELSE ProviderEffect(data, t)

\* tokio::time::sleep(10 ms).await is over: the task goes on to the lock.
Sleep(p) ==
    /\ harness \in LockHarnesses
    /\ procs[p].pc = "sleep"
    /\ procs' = [procs EXCEPT ![p] = [@ EXCEPT !.pc = procs[p].op]]
    /\ UNCHANGED <<harness, auth_vars, us_vars, basic_vars, seed_vars, async_vars,
                   advanced, mutexes, wire_vars, last>>

\* self.<collection>.lock().unwrap(): the task waits until the Mutex is free.
Lock(p) ==
    /\ harness \in LockHarnesses
    /\ procs[p].at = "await"
    /\ MutexOf(procs[p].pc) # "none"
    /\ LET m == MutexOf(procs[p].pc)
       IN  /\ Mutex_can_lock(mutexes[m])
           /\ mutexes' = [mutexes EXCEPT ![m] = Mutex_lock(@, p)]
           /\ procs' = [procs EXCEPT ![p] =
                           [@ EXCEPT !.at = "locked", !.view = Some(Guarded(m))]]
    /\ UNCHANGED <<harness, auth_vars, us_vars, basic_vars, seed_vars, async_vars,
                   advanced, wire_vars, last>>

\* The rest of the provider method under the guard, the guard's drop, and the
\* caller's code up to its next provider call or its return.
Access(p) ==
    /\ harness \in LockHarnesses
    /\ procs[p].at = "locked"
    /\ LET m == MutexOf(procs[p].pc)
           e == TaskEffect(procs[p].view.val, procs[p])
           on_repository == m = "repository"
       IN  /\ procs' = [procs EXCEPT ![p] = e.task]
           /\ mutexes' = [mutexes EXCEPT ![m] = Mutex_unlock(@)]
           /\ us_users' = IF harness = "UserService, concurrent callers"
                              /\ on_repository
                           THEN e.data ELSE us_users
           /\ us_cache' = IF /\ harness \in {"UserService, concurrent callers",
                                              "InMemoryCacheService, concurrent callers"}
                              /\ ~on_repository
                           THEN e.data ELSE us_cache
           /\ auth_users' = IF harness = "AuthService, concurrent operations"
                                /\ on_repository
                             THEN e.data ELSE auth_users
           /\ auth_cache' = IF harness = "AuthService, concurrent operations"
                                /\ ~on_repository
                             THEN e.data ELSE auth_cache
           /\ uuid_count' = IF procs[p].pc = "repository.create"
                                /\ harness = "AuthService, concurrent operations"
                             THEN uuid_count + 1 ELSE uuid_count
           /\ arc_heap' = IF harness \in ProviderHarnesses /\ on_repository
                           THEN [arc_heap EXCEPT ![repo_handle] = e.data]
                           ELSE arc_heap
    /\ UNCHANGED <<harness, basic_vars, seed_vars, repo_handle, async_service,
                   advanced, wire_vars, last>>

\* self.token_service.generate(&user.id).await?, which takes no lock.
Generate(p) ==
    /\ harness = "AuthService, concurrent operations"
    /\ procs[p].pc = "token_service.generate"
    /\ procs' = [procs EXCEPT ![p] = AuthEffect(auth_cache, @, Uuid(uuid_count)).task]
    /\ UNCHANGED <<harness, auth_vars, us_vars, basic_vars, seed_vars, async_vars,
                   advanced, mutexes, wire_vars, last>>

Step(p) == Sleep(p) \/ Lock(p) \/ Access(p) \/ Generate(p)

ConcInit == ProviderInit \/ UserConcInit \/ AuthConcInit
ConcNext == \E p \in 1..NumCallers : Step(p)
ConcSpec == ConcInit /\ [][ConcNext]_vars

\* Every task is scheduled again and again: the runtime polls a task that can
\* go on, and a thread that waits for a Mutex gets it once no guard is alive.
FairSpec == ConcSpec /\ \A p \in 1..NumCallers : WF_vars(Step(p))

(***************************************************************************)
(* real_world_di.rs: ServiceFactory.  A provider is an allocation of       *)
(* wiring.providers (Arc::new) and is referred to by its handle, as in     *)
(* arc_heap; wiring.passed keeps the handles a factory gave to the         *)
(* service's constructor.                                                  *)
(***************************************************************************)
DatabaseUrls == {"postgresql://localhost"}
RedisUrls == {"redis://localhost", "redis://cache"}

\* PostgresUserRepository::new, RedisCacheService { redis_url },
\* MockUserRepository::with_users, InMemoryCacheService::new.
PostgresUserRepository_new(connection_string) ==
    [kind |-> "PostgresUserRepository", connection_string |-> connection_string]
RedisCacheService(redis_url) ==
    [kind |-> "RedisCacheService", redis_url |-> redis_url]
MockUserRepository_with_users(users) ==
    [kind |-> "MockUserRepository", users |-> users]
InMemoryCacheService_new == [kind |-> "InMemoryCacheService", cache |-> EmptyMap]

\* UserService::new
UserService_new(repository, cache) == [repository |-> repository, cache |-> cache]

\* ServiceFactory::new
ServiceFactory_new(database_url) ==
    [database_url |-> database_url, redis_url |-> None, use_cache |-> FALSE]

\* Mutant of with_redis: the url is stored and use_cache is left as it was.
ServiceFactory_with_redis_NoFlag(self, redis_url) ==
    [self EXCEPT !.redis_url = Some(redis_url)]

\* ServiceFactory::with_redis
ServiceFactory_with_redis(self, redis_url) ==
    [self EXCEPT !.redis_url = Some(redis_url), !.use_cache = TRUE]

\* ServiceFactory::build_user_service
ServiceFactory_build_user_service(self) ==
    LET repository == Arc_new(<<>>, PostgresUserRepository_new(self.database_url))
        cache ==
            IF self.use_cache
            THEN IF self.redis_url.some
                 THEN Arc_new(repository.heap, RedisCacheService(self.redis_url.val))
                 ELSE Arc_new(repository.heap, InMemoryCacheService_new)
            ELSE Arc_new(repository.heap, InMemoryCacheService_new)
    IN  [providers |-> cache.heap,
         passed |-> Some([repository |-> repository.handle, cache |-> cache.handle]),
         service |-> Some(UserService_new(repository.handle, cache.handle))]

\* ServiceFactory::build_test_user_service
ServiceFactory_build_test_user_service(mock_users) ==
    LET repository == Arc_new(<<>>, MockUserRepository_with_users(mock_users))
        cache == Arc_new(repository.heap, InMemoryCacheService_new)
    IN  [providers |-> cache.heap,
         passed |-> Some([repository |-> repository.handle, cache |-> cache.handle]),
         service |-> Some(UserService_new(repository.handle, cache.handle))]

\* ServiceFactory::new(database_url)
FactoryInit ==
    /\ harness = "ServiceFactory"
    /\ factory \in {Some(ServiceFactory_new(url)) : url \in DatabaseUrls}
    /\ wiring = NoWiring
    /\ auth_users = <<>> /\ auth_cache = EmptyMap /\ uuid_count = 0
    /\ us_users = <<>> /\ us_cache = EmptyMap
    /\ BasicIdle /\ AsyncIdle /\ advanced = None /\ ConcIdle
    /\ seeded = <<>> /\ mutated = FALSE
    /\ last = NoOp

\* Another ServiceFactory::new(database_url), once a build has consumed the
\* factory.
FactoryNew ==
    /\ harness = "ServiceFactory"
    /\ factory = None
    /\ \E url \in DatabaseUrls :
        /\ factory' = Some(ServiceFactory_new(url))
        /\ last' = [op |-> "factory_new", database_url |-> url]
    /\ supplied' = <<>>
    /\ UNCHANGED <<harness, auth_vars, us_vars, builder, service, seed_vars,
                   async_vars, advanced, conc_vars, wiring>>

\* factory.with_redis(redis_url); supplied keeps the urls given so far.
WithRedis ==
    /\ harness = "ServiceFactory"
    /\ factory.some
    /\ Len(supplied) < MaxSupplied
    /\ \E redis_url \in RedisUrls :
        /\ factory' = Some(ServiceFactory_with_redis(factory.val, redis_url))
        /\ supplied' = Append(supplied, redis_url)
        /\ last' = [op |-> "with_redis", redis_url |-> redis_url]
    /\ UNCHANGED <<harness, auth_vars, us_vars, builder, service, seed_vars,
                   async_vars, advanced, conc_vars, wiring>>

\* factory.build_user_service() consumes the factory.
BuildUserService ==
    /\ harness = "ServiceFactory"
    /\ factory.some
    /\ wiring' = ServiceFactory_build_user_service(factory.val)
    /\ factory' = None
    /\ last' = [op |-> "build_user_service", pre_factory |-> factory.val,
                supplied |-> supplied]
    /\ UNCHANGED <<harness, auth_vars, us_vars, basic_vars, seed_vars,
                   async_vars, advanced, conc_vars>>

\* ServiceFactory::build_test_user_service(mock_users), an associated function.
BuildTestUserService ==
    /\ harness = "ServiceFactory"
    /\ \E mock_users \in {<<>>} \cup {<<u>> : u \in Users} :
        /\ wiring' = ServiceFactory_build_test_user_service(mock_users)
        /\ last' = [op |-> "build_test_user_service", mock_users |-> mock_users]
    /\ UNCHANGED <<harness, auth_vars, us_vars, basic_vars, seed_vars,
                   async_vars, advanced, conc_vars, factory>>

(***************************************************************************)
(* refactoring_with_di.rs: the two implementations of PasswordHasher       *)
(* called directly.  Both are unit structs; a digest is a String, and the  *)
(* harness keeps in `last` the password hashed last and its digest.        *)
(***************************************************************************)
\* Mutant of verify: any digest that is not empty is accepted.
BcryptHasher_verify_NonEmpty(password, hash) == hash # ""

\* BcryptHasher::hash and ::verify: format!("hashed_{}", password).
BcryptHasher_hash(password) == "hashed_" \o password
BcryptHasher_verify(password, hash) == hash = "hashed_" \o password

\* <impl PasswordHasher>::hash and ::verify, for either implementation.
Hasher_hash(kind, password) ==
    IF kind = "BcryptHasher" THEN BcryptHasher_hash(password)
    ELSE MockPasswordHasher_hash(password)
Hasher_verify(kind, password, hash) ==
    IF kind = "BcryptHasher" THEN BcryptHasher_verify(password, hash)
    ELSE MockPasswordHasher_verify(password, hash)

Hashers == {"BcryptHasher", "MockPasswordHasher"}

\* Passwords of the tests, the empty one, one that extends another, and the
\* two prefixes the digests are made with.
HasherPasswords ==
    Passwords \cup {"", "password", "password1234", "wrong_password",
                    "hashed_", "mock_hash_"}

HasherInit ==
    /\ harness \in Hashers
    /\ auth_users = <<>> /\ auth_cache = EmptyMap /\ uuid_count = 0
    /\ us_users = <<>> /\ us_cache = EmptyMap
    /\ BasicIdle /\ OthersIdle
    /\ seeded = <<>> /\ mutated = FALSE
    /\ last = NoOp

\* hasher.hash(password); `earlier` is the call of hash before this one.
HasherHash ==
    /\ harness \in Hashers
    /\ \E password \in HasherPasswords :
        last' = [op |-> "hash", hashed |-> password,
                 digest |-> Hasher_hash(harness, password),
                 earlier |-> IF last.op \in {"hash", "verify"}
                             THEN Some([hashed |-> last.hashed,
                                        digest |-> last.digest])
                             ELSE None]
    /\ UNCHANGED <<harness, auth_vars, us_vars, basic_vars, seed_vars, other_vars>>

\* hasher.verify(password, &digest) on the digest hash returned last.
HasherVerify ==
    /\ harness \in Hashers
    /\ last.op \in {"hash", "verify"}
    /\ \E password \in HasherPasswords :
        last' = [op |-> "verify", hashed |-> last.hashed, digest |-> last.digest,
                 password |-> password,
                 result |-> Hasher_verify(harness, password, last.digest)]
    /\ UNCHANGED <<harness, auth_vars, us_vars, basic_vars, seed_vars, other_vars>>

(***************************************************************************)
(* refactoring_with_di.rs: AuthServiceFactory called any number of times,  *)
(* as main calls create_production and then create_test.                   *)
(***************************************************************************)
AuthFactoryInit ==
    /\ harness = "AuthServiceFactory"
    /\ WireIdle
    /\ auth_users = <<>> /\ auth_cache = EmptyMap /\ uuid_count = 0
    /\ us_users = <<>> /\ us_cache = EmptyMap
    /\ BasicIdle /\ AsyncIdle /\ advanced = None /\ ConcIdle
    /\ seeded = <<>> /\ mutated = FALSE
    /\ last = NoOp

CreateProduction ==
    /\ harness = "AuthServiceFactory"
    /\ LET made == AuthServiceFactory_create_production
       IN  /\ wiring' = made.wiring
           /\ auth_users' = made.users
           /\ auth_cache' = made.cache
    /\ last' = [op |-> "create_production"]
    /\ UNCHANGED <<harness, uuid_count, us_vars, basic_vars, seed_vars,
                   async_vars, advanced, conc_vars, factory>>

CreateTest ==
    /\ harness = "AuthServiceFactory"
    /\ LET made == AuthServiceFactory_create_test
       IN  /\ wiring' = made.wiring
           /\ auth_users' = made.users
           /\ auth_cache' = made.cache
    /\ last' = [op |-> "create_test"]
    /\ UNCHANGED <<harness, uuid_count, us_vars, basic_vars, seed_vars,
                   async_vars, advanced, conc_vars, factory>>

CreateTestWithUser ==
    /\ harness = "AuthServiceFactory"
    /\ \E user \in AuthSeedUsers :
        LET made == AuthServiceFactory_create_test_with_user(user)
        IN  /\ wiring' = made.wiring
            /\ auth_users' = made.users
            /\ auth_cache' = made.cache
    /\ last' = [op |-> "create_test_with_user"]
    /\ UNCHANGED <<harness, uuid_count, us_vars, basic_vars, seed_vars,
                   async_vars, advanced, conc_vars, factory>>

Init ==
    \/ FactoryInit \/ AuthFactoryInit \/ HasherInit
    \/ AuthInit \/ UserInit \/ RepoInit \/ BuilderInit \/ AsyncInit \/ AdvancedInit
    \/ ConcurrentInit

Next ==
    \/ Login \/ Register \/ ChangePassword
    \/ GetUser \/ CreateUser \/ DeleteUser
    \/ RepoCreate \/ RepoUpdate \/ RepoDelete
    \/ BuilderNew \/ WithRepository \/ Build \/ BasicGetUser \/ BasicCreateUser
    \/ AsyncRepoSave \/ AsyncRepoFind \/ AsyncGetUser \/ AsyncCreateUser
    \/ AdvancedGetUser
    \/ FactoryNew \/ WithRedis \/ BuildUserService \/ BuildTestUserService
    \/ CreateProduction \/ CreateTest \/ CreateTestWithUser
    \/ HasherHash \/ HasherVerify
    \/ \E p \in 1..NumCallers : RegisterFind(p) \/ RegisterCreate(p)

Spec == Init /\ [][Next]_vars

(***************************************************************************)
(* Properties.                                                             *)
(***************************************************************************)
HasEmail(users, email) == \E i \in 1..Len(users) : users[i].email = email
HasId(users, id) == \E i \in 1..Len(users) : users[i].id = id
Called(name) == \E i \in 1..Len(last.calls) : last.calls[i] = name
IsErr(result, e) == result.tag = "Err" /\ result.val = e
\* The last operation was `op` and every provider call it made answered as the
\* in-memory provider does.
Ran(op) == last.op = op /\ last.fault = NoFault

\* C1: a create-with-uniqueness-check on an email some stored user already has
\* fails (AuthService.register with Error::AlreadyExists, UserService.create_user
\* with "Email already exists") and leaves repository and cache as they were.
C1_DuplicateCreateFails ==
    /\ (Ran("register") /\ HasEmail(last.pre_users, last.email))
        => /\ IsErr(last.result, "AlreadyExists")
           /\ auth_users = last.pre_users
           /\ auth_cache = last.pre_cache
    /\ (Ran("create_user") /\ HasEmail(last.pre_users, last.user.email))
        => /\ IsErr(last.result, "Email already exists")
           /\ us_users = last.pre_users
           /\ us_cache = last.pre_cache

\* register ran on an email already stored, with a populated cache.
C1_Witness ==
    /\ Ran("register")
    /\ HasEmail(last.pre_users, last.email)
    /\ DOMAIN last.pre_cache # {}

\* create_user ran on an email already stored, with a populated cache.
C1_WitnessCreateUser ==
    /\ Ran("create_user")
    /\ HasEmail(last.pre_users, last.user.email)
    /\ DOMAIN last.pre_cache # {}

\* C2: login(email, password) returns Ok(token) whenever a stored user has that
\* email and the digest of that password; the token is "mock_token_" + that
\* user's id, and afterwards the cache maps "user:email:" + email to that id.
C2_LoginSucceeds ==
    Ran("login") =>
        \A i \in 1..Len(last.pre_users) :
            (/\ last.pre_users[i].email = last.email
             /\ last.pre_users[i].password_hash = "mock_hash_" \o last.password)
            => /\ last.result.tag = "Ok"
               /\ last.result.val = "mock_token_" \o last.pre_users[i].id
               /\ ("user:email:" \o last.email) \in DOMAIN auth_cache
               /\ auth_cache["user:email:" \o last.email] = last.pre_users[i].id

\* a login with the right password of a registered (uuid) user, second in the Vec.
C2_Witness ==
    /\ Ran("login")
    /\ Len(last.pre_users) = 2
    /\ last.pre_users[2].email = last.email
    /\ last.pre_users[2].password_hash = "mock_hash_" \o last.password
    /\ last.pre_users[2].id # "1"

\* C3: login fails with InvalidCredentials (never NotFound) when no stored user
\* has the email and when the stored digest is not that of the password; then
\* token_service.generate is not called and cache and repository are unchanged.
C3_LoginFails ==
    (/\ Ran("login")
     /\ \/ ~HasEmail(last.pre_users, last.email)
        \/ \E i \in 1..Len(last.pre_users) :
              /\ last.pre_users[i].email = last.email
              /\ last.pre_users[i].password_hash # "mock_hash_" \o last.password)
    => /\ IsErr(last.result, "InvalidCredentials")
       /\ ~Called("token_service.generate")
       /\ auth_users = last.pre_users
       /\ auth_cache = last.pre_cache

\* a login for an unknown email, with a populated cache.
C3_WitnessAbsent ==
    /\ Ran("login")
    /\ ~HasEmail(last.pre_users, last.email)
    /\ DOMAIN last.pre_cache # {}

\* a login with a wrong password for a stored email, with a populated cache.
C3_Witness ==
    /\ Ran("login")
    /\ \E i \in 1..Len(last.pre_users) :
          /\ last.pre_users[i].email = last.email
          /\ last.pre_users[i].password_hash # "mock_hash_" \o last.password
    /\ DOMAIN last.pre_cache # {}

\* What login(email, password) returns when called in the current state.
LoginNow(email, password) ==
    AuthService_login(auth_users, auth_cache, email, password, NoFault).result

\* C4 as claimed: after change_password(email, old, new) returns Ok, for every
\* old and new, login(email, new) returns Ok and login(email, old) returns
\* Err(InvalidCredentials).
C4_AsClaimed ==
    (Ran("change_password") /\ last.result.tag = "Ok")
    => /\ LoginNow(last.email, last.new_password).tag = "Ok"
       /\ IsErr(LoginNow(last.email, last.old_password), "InvalidCredentials")

\* C4: after change_password(email, old, new) returns Ok, login(email, new)
\* returns Ok, and login(email, old) returns Err(InvalidCredentials) when old
\* differs from new.
C4_ChangeThenLogin ==
    (Ran("change_password") /\ last.result.tag = "Ok")
    => /\ LoginNow(last.email, last.new_password).tag = "Ok"
       /\ (last.old_password # last.new_password
            => IsErr(LoginNow(last.email, last.old_password), "InvalidCredentials"))

\* a successful change to a different password.
C4_Witness ==
    /\ Ran("change_password")
    /\ last.result.tag = "Ok"
    /\ last.old_password # last.new_password

\* C5: change_password returns Err(NotFound) when no stored user has the key and
\* Err(InvalidCredentials) when the old password does not verify; in both cases
\* repository.update and cache.delete are not called, repository and cache are
\* unchanged, and login with the password whose digest is stored still succeeds.
C5_ChangeFails ==
    Ran("change_password") =>
        /\ ~HasEmail(last.pre_users, last.email) => IsErr(last.result, "NotFound")
        /\ \A i \in 1..Len(last.pre_users) :
              (/\ last.pre_users[i].email = last.email
               /\ last.pre_users[i].password_hash # "mock_hash_" \o last.old_password)
              => /\ IsErr(last.result, "InvalidCredentials")
                 /\ \A p \in Passwords :
                       last.pre_users[i].password_hash = "mock_hash_" \o p
                       => LoginNow(last.email, p).tag = "Ok"
        /\ last.result.tag = "Err"
            => /\ ~Called("repository.update")
               /\ ~Called("cache.delete")
               /\ auth_users = last.pre_users
               /\ auth_cache = last.pre_cache

\* a change_password with a wrong old password, on a user who has a password and
\* whose cache entry is populated.
C5_Witness ==
    /\ Ran("change_password")
    /\ IsErr(last.result, "InvalidCredentials")
    /\ ("user:email:" \o last.email) \in DOMAIN last.pre_cache
    /\ \E p \in Passwords : LoginNow(last.email, p).tag = "Ok"

\* a change_password for an unknown key, with a populated cache.
C5_WitnessNotFound ==
    /\ Ran("change_password")
    /\ IsErr(last.result, "NotFound")
    /\ DOMAIN last.pre_cache # {}

\* What get_user(id) does when called in the current state.
GetUserNow(id) == UserService_get_user(us_users, us_cache, id, NoFault)

\* C6: after delete_user(id) (which returns Ok), get_user(id) returns Ok(None)
\* and the cache holds no entry for "user:" + id, whether or not an earlier
\* get_user populated it; the entry is still absent after that get_user.
C6_DeleteThenGet ==
    Ran("delete_user") =>
        /\ last.result.tag = "Ok"
        /\ ("user:" \o last.id) \notin DOMAIN us_cache
        /\ GetUserNow(last.id).result.tag = "Ok"
        /\ ~GetUserNow(last.id).result.val.some
        /\ ("user:" \o last.id) \notin DOMAIN GetUserNow(last.id).cache

\* delete_user of a stored id whose cache entry was populated.
C6_Witness ==
    /\ Ran("delete_user")
    /\ HasId(last.pre_users, last.id)
    /\ ("user:" \o last.id) \in DOMAIN last.pre_cache

\* delete_user of a stored id whose cache entry was not populated.
C6_WitnessCold ==
    /\ Ran("delete_user")
    /\ HasId(last.pre_users, last.id)
    /\ ("user:" \o last.id) \notin DOMAIN last.pre_cache

\* C7 as claimed: get_user(id) does not call repository.find_by_id when the
\* cache already holds "user:" + id.
C7_AsClaimed ==
    (Ran("get_user") /\ ("user:" \o last.id) \in DOMAIN last.pre_cache)
    => ~Called("repository.find_by_id")

C8_WitnessNone ==
    /\ Ran("get_user")
    /\ last.result.tag = "Ok"
    /\ ~last.result.val.some
    /\ DOMAIN last.pre_cache # {}

\* C9 as claimed: after MockUserRepository.create(u) returns Ok, find_by_id(u.id)
\* returns a record equal to u in every field.
C9_AsClaimed ==
    (last.op = "create" /\ last.result.tag = "Ok")
    => UserRepo_find_by_id(us_users, last.user.id) = Ok(Some(last.user))

\* C10: build() returns Err("Repository not set") when with_repository was never
\* called on the builder, and otherwise Ok(service) whose repository is the one
\* most recently supplied.
C10_Build ==
    last.op = "build" =>
        IF Len(last.supplied) = 0
        THEN IsErr(last.result, "Repository not set")
        ELSE /\ last.result.tag = "Ok"
             /\ last.result.val.repository = last.supplied[Len(last.supplied)]
             /\ service = Some(last.result.val)

\* build() after two with_repository calls that supplied different repositories.
C10_Witness ==
    /\ last.op = "build"
    /\ Len(last.supplied) = 2
    /\ last.supplied[1] # last.supplied[2]

\* build() on a builder that was never given a repository.
C10_WitnessUnset ==
    /\ last.op = "build"
    /\ Len(last.supplied) = 0

\* The record a lookup by id finds in a Vec: the first one with that id.
FoundById(result, users, id) ==
    /\ result.tag = "Ok"
    /\ result.val.some <=> HasId(users, id)
    /\ \A i \in 1..Len(users) :
          (users[i].id = id /\ \A j \in 1..(i - 1) : users[j].id # id)
          => result.val.val = users[i]

\* The record a lookup by email finds in a Vec: the first one with that email.
FoundByEmail(result, users, email) ==
    /\ result.tag = "Ok"
    /\ result.val.some <=> HasEmail(users, email)
    /\ \A i \in 1..Len(users) :
          (users[i].email = email /\ \A j \in 1..(i - 1) : users[j].email # email)
          => result.val.val = users[i]

\* C11 as claimed: a service built by the test factory starts with an empty
\* cache, and before any mutating call get_user(id) returns the seeded record
\* for every seeded record's id and None for every other id.
C11_AsClaimed ==
    /\ (last = NoOp /\ harness \in {"AuthService", "UserService"})
        => auth_cache = EmptyMap /\ us_cache = EmptyMap
    /\ (Ran("get_user") /\ ~mutated)
        => /\ last.result.tag = "Ok"
           /\ \A i \in 1..Len(seeded) :
                 seeded[i].id = last.id => last.result.val = Some(seeded[i])
           /\ ~HasId(seeded, last.id) => last.result.val = None

\* C11: a service built by the test factory starts with the seed records in its
\* repository and an empty cache; before any mutating call, get_user(id) and
\* the repository's find_by_email(email) return the first seeded record with
\* that key, and None when no seeded record has it.
C11_Seeded ==
    /\ (last = NoOp /\ harness = "AuthService")
        => auth_cache = EmptyMap /\ auth_users = seeded
    /\ (last = NoOp /\ harness = "UserService")
        => us_cache = EmptyMap /\ us_users = seeded
    /\ (Ran("get_user") /\ ~mutated)
        => FoundById(last.result, seeded, last.id)
    /\ (harness = "AuthService" /\ ~mutated)
        => \A email \in Emails :
              FoundByEmail(AuthRepo_find_by_email(auth_users, email), seeded, email)
    /\ (harness \in {"UserService", "MockUserRepository"} /\ ~mutated)
        => \A email \in UserEmails :
              FoundByEmail(UserRepo_find_by_email(us_users, email), seeded, email)

\* get_user found the second of two seeded records, after an earlier get_user
\* had populated the cache and before any mutating call.
C11_Witness ==
    /\ Ran("get_user")
    /\ ~mutated
    /\ Len(seeded) = 2
    /\ seeded[1].id # last.id
    /\ seeded[2].id = last.id
    /\ DOMAIN last.pre_cache # {}

\* get_user of an id no seeded record has, before any mutating call.
C11_WitnessAbsent ==
    /\ Ran("get_user")
    /\ ~mutated
    /\ Len(seeded) > 0
    /\ ~HasId(seeded, last.id)

\* a login on the wiring seeded with one user, before any mutating call.
C11_WitnessAuth ==
    /\ Ran("login")
    /\ ~mutated
    /\ Len(seeded) = 1
    /\ last.result.tag = "Ok"

\* The operations of the two composite services.
AuthOps == {"login", "register", "change_password"}
UserOps == {"get_user", "create_user", "delete_user"}

\* C12: when a repository or token-service call made by login, register,
\* change_password, get_user, create_user or delete_user returns Err(e), the
\* operation returns that Err(e); the failed call is made once and is the last
\* provider call of the operation, so no cache set or delete follows it, and
\* the cache is as it was.
C12_ErrPropagates ==
    (last.op \in AuthOps \cup UserOps /\ last.fault # NoFault)
    => /\ IsErr(last.result, last.fault.err)
       /\ last.calls[Len(last.calls)] = last.fault.call
       /\ \A i \in 1..(Len(last.calls) - 1) : last.calls[i] # last.fault.call
       /\ ~Called("cache.set")
       /\ ~Called("cache.delete")
       /\ last.op \in AuthOps => auth_cache = last.pre_cache
       /\ last.op \in UserOps => us_cache = last.pre_cache

\* delete_user whose repository.delete failed, on an id whose cache entry was
\* populated.
C12_Witness ==
    /\ last.op = "delete_user"
    /\ last.fault.call = "repository.delete"
    /\ ("user:" \o last.id) \in DOMAIN last.pre_cache

\* login whose token_service.generate failed, after the password verified.
C12_WitnessToken ==
    /\ last.op = "login"
    /\ last.fault.call = "token_service.generate"
    /\ DOMAIN last.pre_cache # {}

\* change_password whose repository.update failed, with the cache entry of the
\* key populated.
C12_WitnessUpdate ==
    /\ last.op = "change_password"
    /\ last.fault.call = "repository.update"
    /\ ("user:email:" \o last.email) \in DOMAIN last.pre_cache

\* Other contents a cache may have when an operation starts: nothing (which is
\* also what a cache whose get, set and delete do nothing answers), one entry
\* that holds a right or a stale id, or a stale entry under every key.
AuthCaches ==
    {EmptyMap}
    \cup {[k \in {AuthCacheKey(e)} |-> v] : e \in Emails, v \in {"1", "stale"}}
    \cup {[k \in {AuthCacheKey(e) : e \in Emails} |-> "stale"]}
UserCaches ==
    {EmptyMap}
    \cup {[k \in {UserCacheKey(i)} |-> v] : i \in UserIds, v \in UserIds}
    \cup {[k \in {UserCacheKey(i) : i \in UserIds} |-> "stale"]}

\* The last operation run again from the repository contents it started from,
\* with the same arguments, the same provider fault and the same fresh id, but
\* on a cache that holds `cache`.
Rerun(cache) ==
    CASE last.op = "login" ->
            AuthService_login(last.pre_users, cache, last.email, last.password,
                              last.fault)
      [] last.op = "register" ->
            AuthService_register(last.pre_users, cache, last.email, last.password,
                                 IF last.result.tag = "Ok" THEN last.result.val.id
                                 ELSE Uuid(uuid_count + 1),
                                 last.fault)
      [] last.op = "change_password" ->
            AuthService_change_password(last.pre_users, cache, last.email,
                                        last.old_password, last.new_password,
                                        last.fault)
      [] last.op = "get_user" ->
            UserService_get_user(last.pre_users, cache, last.id, last.fault)
      [] last.op = "create_user" ->
            UserService_create_user(last.pre_users, cache, last.user, last.fault)
      [] last.op = "delete_user" ->
            UserService_delete_user(last.pre_users, cache, last.id, last.fault)

\* C13: the cache is not authoritative.  Whatever the cache held when login,
\* register, change_password, get_user, create_user or delete_user started,
\* the operation returns the same result and leaves the same repository
\* contents as it does from the same repository with any other cache contents.
C13_CacheNotAuthoritative ==
    /\ last.op \in AuthOps
        => \A cache \in AuthCaches :
              /\ Rerun(cache).result = last.result
              /\ Rerun(cache).users = auth_users
    /\ last.op \in UserOps
        => \A cache \in UserCaches :
              /\ Rerun(cache).result = last.result
              /\ Rerun(cache).users = us_users

\* a login with a wrong password, started with the cache entry of its email
\* populated by an earlier successful login.
C13_Witness ==
    /\ last.op = "login"
    /\ IsErr(last.result, "InvalidCredentials")
    /\ ("user:email:" \o last.email) \in DOMAIN last.pre_cache

\* a get_user that found a record, started with the cache entry of its id
\* populated.
C13_WitnessGetUser ==
    /\ last.op = "get_user"
    /\ last.fault = NoFault
    /\ last.result.val.some
    /\ ("user:" \o last.id) \in DOMAIN last.pre_cache

\* C14: after UserService.create_user(u) returns Ok(created), created equals u,
\* the repository contains created, and the cache holds an entry under
\* "user:" + created.id.
C14_CreateUser ==
    (last.op = "create_user" /\ last.result.tag = "Ok")
    => /\ last.result.val = last.user
       /\ \E i \in 1..Len(us_users) : us_users[i] = last.result.val
       /\ Len(us_users) = Len(last.pre_users) + 1
       /\ ("user:" \o last.result.val.id) \in DOMAIN us_cache

\* a create_user that succeeded on a repository that already held a record, with
\* no cache entry for the new id beforehand.
C14_Witness ==
    /\ last.op = "create_user"
    /\ last.result.tag = "Ok"
    /\ Len(last.pre_users) > 0
    /\ ("user:" \o last.user.id) \notin DOMAIN last.pre_cache

\* C15 as claimed: after AuthService.register(email, password) returns Ok(user),
\* the operation has set a cache entry for the new user: one under
\* "user:email:" + email, or one that holds the user's id.
C15_AsClaimed ==
    (last.op = "register" /\ last.result.tag = "Ok")
    => /\ Called("cache.set")
       /\ \/ ("user:email:" \o last.email) \in DOMAIN auth_cache
          \/ \E k \in DOMAIN auth_cache : auth_cache[k] = last.result.val.id

\* C16: after AuthService.change_password(email, old, new) returns Ok, the cache
\* holds no entry under "user:email:" + email (whether or not a login had
\* populated it) and its other entries are as they were; the stored record of
\* that email differs from the previous one only in password_hash, which is
\* hasher.hash(new), and every other record is unchanged.
C16_ChangePasswordFrame ==
    (last.op = "change_password" /\ last.result.tag = "Ok")
    => /\ ("user:email:" \o last.email) \notin DOMAIN auth_cache
       /\ DOMAIN auth_cache = DOMAIN last.pre_cache \ {"user:email:" \o last.email}
       /\ \A k \in DOMAIN auth_cache : auth_cache[k] = last.pre_cache[k]
       /\ Len(auth_users) = Len(last.pre_users)
       /\ \A i \in 1..Len(auth_users) :
             IF last.pre_users[i].email = last.email
             THEN /\ auth_users[i].id = last.pre_users[i].id
                  /\ auth_users[i].email = last.pre_users[i].email
                  /\ auth_users[i].role = last.pre_users[i].role
                  /\ auth_users[i].password_hash = "mock_hash_" \o last.new_password
             ELSE auth_users[i] = last.pre_users[i]

\* a successful change to a different password, of the second of two stored
\* users, whose cache entry an earlier login had populated along with another
\* user's.
C16_Witness ==
    /\ last.op = "change_password"
    /\ last.result.tag = "Ok"
    /\ last.old_password # last.new_password
    /\ Len(last.pre_users) = 2
    /\ last.pre_users[2].email = last.email
    /\ Cardinality(DOMAIN last.pre_cache) = 2

\* C17: a provider is shared, not copied, between its Arc handles: a
\* get_user(id) on the service that directly follows a save(id, name) through
\* the test's handle of the repository returns Some(name), and at every moment
\* a lookup through either handle gives the same answer.
C17_SharedNotCopied ==
    /\ (/\ last.op = "async_get_user"
        /\ last.prev.op = "async_save"
        /\ last.prev.id = last.id)
        => last.result = Some(last.prev.name)
    /\ harness = "AsyncUserService"
        => \A id \in BasicIds :
              AsyncUserService_get_user(arc_heap, async_service.val, id)
                  = AsyncRepo_find_by_id(arc_heap, repo_handle, id)

\* service.get_user(id) directly after repo.save(id, name).
C17_Witness ==
    /\ last.op = "async_get_user"
    /\ last.prev.op = "async_save"
    /\ last.prev.id = last.id
    /\ last.result.some

\* C18: every AdvancedUserService.get_user(id) appends exactly two messages to
\* the logger, first "Fetching user with id: <id>", then "User found" if the
\* repository returned Some and "User not found" if it returned None, and it
\* returns what the repository's find_by_id(id) returns.
C18_LogsTwoMessages ==
    last.op = "advanced_get_user" =>
        LET messages == MockLogger_get_messages(advanced.val.logger)
            repository == advanced.val.repository
            n == Len(last.pre_messages)
        IN  /\ Len(messages) = n + 2
            /\ SubSeq(messages, 1, n) = last.pre_messages
            /\ messages[n + 1] = "Fetching user with id: " \o ToString(last.id)
            /\ messages[n + 2] = IF last.result.some THEN "User found"
                                                    ELSE "User not found"
            /\ repository.kind = "InMemory"
                => last.result = IF last.id \in DOMAIN repository.users
                                 THEN Some(repository.users[last.id]) ELSE None
            /\ repository.kind = "Mock"
                => last.result = IF repository.should_fail THEN None
                                 ELSE Some("Mock User")

\* a second get_user on one service: the first found a user, this one did not.
C18_Witness ==
    /\ last.op = "advanced_get_user"
    /\ Len(last.pre_messages) = 2
    /\ last.pre_messages[2] = "User found"
    /\ ~last.result.some

\* C19: a UserService over the stateless MockUserRepository answers get_user(id)
\* with Some("Mock User") for every id when should_fail is false and with None
\* for every id when it is true; create_user leaves the repository as it was,
\* so it changes no later answer, not even for the id it was given.
C19_StatelessMock ==
    harness = "UserServiceBuilder<MockUserRepository>" =>
        /\ last.op = "build" /\ last.result.tag = "Ok"
            => service.val.repository = last.supplied[Len(last.supplied)]
        /\ last.op = "basic_get_user"
            => last.result = IF service.val.repository.should_fail THEN None
                             ELSE Some("Mock User")
        /\ last.op = "basic_create_user"
            => /\ service.val = last.pre_service
               /\ \A id \in BasicIds :
                     BasicUserService_get_user(service.val, id)
                         = BasicUserService_get_user(last.pre_service, id)

\* get_user(id) on the mock that answers, directly after create_user(id, name)
\* with another name.
C19_Witness ==
    /\ harness = "UserServiceBuilder<MockUserRepository>"
    /\ last.op = "basic_get_user"
    /\ last.prev.op = "basic_create_user"
    /\ last.prev.id = last.id
    /\ last.result = Some("Mock User")

\* get_user(id) on the mock built with should_fail, directly after create_user.
C19_WitnessFail ==
    /\ harness = "UserServiceBuilder<MockUserRepository>"
    /\ last.op = "basic_get_user"
    /\ last.prev.op = "basic_create_user"
    /\ service.val.repository.should_fail

\* C20 as claimed: whatever the interleaving of concurrent register calls on one
\* service, the repository never holds two records with the same email, and at
\* most one of the calls for one email returns Ok.
C20_AsClaimed ==
    harness = "AuthService, concurrent callers" =>
        /\ \A i, j \in 1..Len(auth_users) :
              i # j => auth_users[i].email # auth_users[j].email
        /\ \A p, q \in 1..NumCallers :
              (/\ p # q
               /\ procs[p].email = procs[q].email
               /\ procs[p].pc = "returned"
               /\ procs[q].pc = "returned")
              => ~(procs[p].result.tag = "Ok" /\ procs[q].result.tag = "Ok")

\* C25: for UserService over InMemoryUserRepository, get_user(id) answers the
\* name most recently saved for id and None for an id never saved: the built
\* service answers exactly what the repository it was given holds, directly
\* after create_user(id, name) get_user(id) is Some(name) whatever was stored
\* before, and the answer for every other id is what it was before the call.
C25_LastSaveWins ==
    harness = "UserServiceBuilder<InMemoryUserRepository>" =>
        /\ last.op = "build" /\ last.result.tag = "Ok"
            => LET given == last.supplied[Len(last.supplied)].users
               IN  \A id \in BasicIds :
                      BasicUserService_get_user(service.val, id)
                          = IF id \in DOMAIN given THEN Some(given[id]) ELSE None
        /\ last.op = "basic_create_user"
            => \A id \in BasicIds :
                  BasicUserService_get_user(service.val, id)
                      = IF id = last.id THEN Some(last.name)
                        ELSE BasicUserService_get_user(last.pre_service, id)
        /\ last.op = "basic_get_user"
            => last.result = BasicUserService_get_user(service.val, last.id)

\* create_user(id, name) over a record with another name for id, while another
\* id is stored too.
C25_Witness ==
    /\ harness = "UserServiceBuilder<InMemoryUserRepository>"
    /\ last.op = "basic_create_user"
    /\ BasicUserService_get_user(last.pre_service, last.id).some
    /\ BasicUserService_get_user(last.pre_service, last.id) # Some(last.name)
    /\ \E id \in BasicIds \ {last.id} :
          BasicUserService_get_user(service.val, id).some

\* get_user(id) for an id never saved, directly after a create_user for
\* another id.
C25_WitnessNone ==
    /\ harness = "UserServiceBuilder<InMemoryUserRepository>"
    /\ last.op = "basic_get_user"
    /\ last.prev.op = "basic_create_user"
    /\ last.prev.id # last.id
    /\ last.result = None

\* C26 as claimed: update(u) on a store without u.id returns the not-found
\* error and changes nothing; otherwise it returns Ok(u), a stored record with
\* id u.id is u afterwards (every one of them, "the" record with that id), and
\* the number of records and the records with other ids are unchanged.
C26_AsClaimed ==
    (harness = "MockUserRepository" /\ last.op = "update") =>
        IF \A i \in 1..Len(last.pre_users) : last.pre_users[i].id # last.user.id
        THEN last.result = Err("User not found") /\ us_users = last.pre_users
        ELSE /\ last.result = Ok(last.user)
             /\ Len(us_users) = Len(last.pre_users)
             /\ \A i \in 1..Len(us_users) :
                   us_users[i] = IF last.pre_users[i].id = last.user.id
                                 THEN last.user ELSE last.pre_users[i]

\* C26: update(u) on a store without u.id returns the not-found error and
\* changes nothing; otherwise it returns Ok(u), the first stored record with id
\* u.id becomes u, and the number of records and every other record (a later
\* one with the same id included) are unchanged.  The same for the update that
\* AuthService::change_password makes in refactoring_with_di.rs.
C26_UpdateReplacesFirst ==
    /\ (harness = "MockUserRepository" /\ last.op = "update") =>
          IF \A i \in 1..Len(last.pre_users) : last.pre_users[i].id # last.user.id
          THEN last.result = Err("User not found") /\ us_users = last.pre_users
          ELSE /\ last.result = Ok(last.user)
               /\ Len(us_users) = Len(last.pre_users)
               /\ \A i \in 1..Len(us_users) :
                     us_users[i] =
                        IF /\ last.pre_users[i].id = last.user.id
                           /\ \A j \in 1..(i - 1) :
                                 last.pre_users[j].id # last.user.id
                        THEN last.user ELSE last.pre_users[i]
    /\ harness = "AuthService" =>
          \A k \in 1..Len(auth_users), h \in {"mock_hash_password", "other"} :
              LET u == [auth_users[k] EXCEPT !.password_hash = h]
                  r == AuthRepo_update(auth_users, u)
              IN  /\ r.result = Ok(u)
                  /\ Len(r.users) = Len(auth_users)
                  /\ \A i \in 1..Len(auth_users) :
                        r.users[i] =
                            IF /\ auth_users[i].id = u.id
                               /\ \A j \in 1..(i - 1) : auth_users[j].id # u.id
                            THEN u ELSE auth_users[i]
    /\ harness = "AuthService" =>
          \A k \in 1..Len(auth_users) :
              LET u == [auth_users[k] EXCEPT !.id = "no such id"]
                  r == AuthRepo_update(auth_users, u)
              IN  r.result = Err("NotFound") /\ r.users = auth_users

\* update(u) replaced the first of two records, the other one having another id.
C26_Witness ==
    /\ harness = "MockUserRepository" /\ last.op = "update"
    /\ last.result = Ok(last.user)
    /\ Len(last.pre_users) = 2
    /\ last.pre_users[1].id = last.user.id
    /\ last.pre_users[1] # last.user
    /\ last.pre_users[2].id # last.user.id

\* update(u) on a store holding two records with id u.id, both different from u.
C26_WitnessDuplicate ==
    /\ harness = "MockUserRepository" /\ last.op = "update"
    /\ Len(last.pre_users) = 2
    /\ last.pre_users[1].id = last.user.id
    /\ last.pre_users[2].id = last.user.id
    /\ last.pre_users[1] # last.user
    /\ last.pre_users[2] # last.user

\* update(u) on a non-empty store without u.id.
C26_WitnessNotFound ==
    /\ harness = "MockUserRepository" /\ last.op = "update"
    /\ last.pre_users # <<>>
    /\ last.result = Err("User not found")

\* An AuthService repository of two records, for the update of either.
C26_WitnessAuth ==
    /\ harness = "AuthService"
    /\ Len(auth_users) = 2
    /\ last.op = "change_password" /\ last.result.tag = "Ok"

\* C27: after register(email, password) returns Ok(user): user has that email,
\* role "user" and the digest of that password, user is stored, login(email,
\* password) returns Ok, and login(email, q) returns Err(InvalidCredentials) for
\* every q other than password.
C27_RegisterThenLogin ==
    (Ran("register") /\ last.result.tag = "Ok") =>
        LET user == last.result.val
        IN  /\ user.email = last.email
            /\ user.role = "user"
            /\ user.password_hash = "mock_hash_" \o last.password
            /\ \E i \in 1..Len(auth_users) : auth_users[i] = user
            /\ LoginNow(last.email, last.password).tag = "Ok"
            /\ \A q \in (Passwords \cup {"", "wrong_password"}) \ {last.password} :
                  IsErr(LoginNow(last.email, q), "InvalidCredentials")

\* register returned Ok on a repository that already held another user, whose
\* email is in the cache.
C27_Witness ==
    /\ Ran("register") /\ last.result.tag = "Ok"
    /\ Len(last.pre_users) >= 1
    /\ DOMAIN auth_cache # {}

\* C30: MockUserRepository.delete(id) and UserService.delete_user(id) on the
\* mock wiring return Ok(()) whether or not id is stored; afterwards the store
\* is the former store without the records of that id, in the former order;
\* delete_user leaves no cache entry for "user:" + id and keeps every other
\* entry; and the same call made again returns Ok(()) and leaves repository and
\* cache as they are.
C30_DeleteIdempotent ==
    /\ (harness = "MockUserRepository" /\ last.op = "delete") =>
          /\ last.result = Ok(Unit)
          /\ us_users = SelectSeq(last.pre_users, LAMBDA u : u.id # last.id)
          /\ LET again == UserRepo_delete(us_users, last.id)
             IN  again.result = Ok(Unit) /\ again.users = us_users
    /\ Ran("delete_user") =>
          /\ last.result = Ok(Unit)
          /\ us_users = SelectSeq(last.pre_users, LAMBDA u : u.id # last.id)
          /\ DOMAIN us_cache = DOMAIN last.pre_cache \ {"user:" \o last.id}
          /\ \A k \in DOMAIN us_cache : us_cache[k] = last.pre_cache[k]
          /\ LET again == UserService_delete_user(us_users, us_cache, last.id,
                                                  NoFault)
             IN  /\ again.result = Ok(Unit)
                 /\ again.users = us_users
                 /\ again.cache = us_cache

\* delete_user(id) removed the record and the cache entry of id and kept the
\* record and the cache entry of another id.
C30_Witness ==
    /\ Ran("delete_user")
    /\ Len(last.pre_users) = 2 /\ Len(us_users) = 1
    /\ ("user:" \o last.id) \in DOMAIN last.pre_cache
    /\ DOMAIN us_cache # {}

\* delete_user(id) removed two records with that id.
C30_WitnessDuplicate ==
    /\ Ran("delete_user")
    /\ Len(last.pre_users) = 2 /\ us_users = <<>>
    /\ ("user:" \o last.id) \in DOMAIN last.pre_cache

\* delete_user(id) for an id that is not stored, with one that is.
C30_WitnessAbsent ==
    /\ Ran("delete_user")
    /\ last.pre_users # <<>>
    /\ us_users = last.pre_users

\* delete(id) on the repository kept one record of two; delete(id) for an id
\* that is not stored.
C30_WitnessRepo ==
    /\ harness = "MockUserRepository" /\ last.op = "delete"
    /\ Len(last.pre_users) = 2 /\ Len(us_users) = 1

C30_WitnessRepoAbsent ==
    /\ harness = "MockUserRepository" /\ last.op = "delete"
    /\ last.pre_users # <<>>
    /\ us_users = last.pre_users

\* C28: as long as a ServiceFactory exists, use_cache is true exactly when
\* redis_url is set, and that is exactly when with_redis was called on it (the
\* url being the last one given); build_user_service makes two providers, a
\* PostgresUserRepository on database_url and, if with_redis was called, a
\* RedisCacheService on the last url given, otherwise an InMemoryCacheService,
\* and hands exactly these to UserService::new.
C28_CacheFollowsRedis ==
    harness = "ServiceFactory" =>
        /\ factory.some =>
              /\ factory.val.use_cache <=> factory.val.redis_url.some
              /\ factory.val.redis_url.some <=> supplied # <<>>
              /\ supplied # <<>>
                    => factory.val.redis_url = Some(supplied[Len(supplied)])
        /\ last.op = "build_user_service" =>
              /\ Len(wiring.providers) = 2
              /\ wiring.service.val.repository # wiring.service.val.cache
              /\ wiring.providers[wiring.service.val.repository]
                    = [kind |-> "PostgresUserRepository",
                       connection_string |-> last.pre_factory.database_url]
              /\ wiring.providers[wiring.service.val.cache]
                    = IF last.supplied # <<>>
                      THEN [kind |-> "RedisCacheService",
                            redis_url |-> last.supplied[Len(last.supplied)]]
                      ELSE [kind |-> "InMemoryCacheService", cache |-> EmptyMap]

\* build_user_service after two calls of with_redis with different urls.
C28_Witness ==
    /\ harness = "ServiceFactory"
    /\ last.op = "build_user_service"
    /\ Len(last.supplied) = 2
    /\ last.supplied[1] # last.supplied[2]

\* build_user_service on a factory with_redis was never called on.
C28_WitnessInMemory ==
    /\ harness = "ServiceFactory"
    /\ last.op = "build_user_service"
    /\ last.supplied = <<>>
    /\ wiring.providers[wiring.service.val.cache].kind = "InMemoryCacheService"

\* The kinds of the providers a wired service holds, by field.
KindsOf(w) ==
    [f \in DOMAIN w.service.val |-> w.providers[w.service.val[f]].kind]

\* C23: a wired service holds exactly the handles its factory passed to its
\* constructor, one allocation each, and there is no allocation besides them;
\* an AuthService made by create_test or create_test_with_user holds the four
\* mocks, and holds them still after any sequence of login, register and
\* change_password.
C23_ProvidersAsPassed ==
    /\ wiring.service.some =>
          /\ wiring.service.val = wiring.passed.val
          /\ \A f, g \in DOMAIN wiring.service.val :
                f # g => wiring.service.val[f] # wiring.service.val[g]
          /\ {wiring.service.val[f] : f \in DOMAIN wiring.service.val}
                = 1..Len(wiring.providers)
    /\ harness = "AuthService" =>
          /\ wiring.service.some
          /\ KindsOf(wiring) = [repository |-> "MockUserRepository",
                                hasher |-> "MockPasswordHasher",
                                token_service |-> "MockTokenService",
                                cache |-> "MockCache"]
    /\ last.op = "create_production" =>
          KindsOf(wiring) = [repository |-> "PostgresUserRepository",
                             hasher |-> "BcryptHasher",
                             token_service |-> "JwtTokenService",
                             cache |-> "RedisCache"]

\* an AuthService from create_test_with_user, after a register and then a
\* change_password that wrote to repository and cache.
C23_Witness ==
    /\ harness = "AuthService"
    /\ Ran("change_password") /\ last.result.tag = "Ok"
    /\ Len(auth_users) = 2
    /\ Called("cache.delete")

\* create_production, and a UserService from ServiceFactory::build_user_service.
C23_WitnessProduction ==
    last.op = "create_production" /\ wiring.service.some

C23_WitnessUserService ==
    last.op = "build_user_service" /\ wiring.service.some

\* Every task has returned.
AllReturned == \A p \in 1..NumCallers : procs[p].pc = "returned"

\* The orders in which the callers' calls can be made one after another, and
\* what the collection holds after the calls made in one such order on `map`.
Orders ==
    {o \in [1..NumCallers -> 1..NumCallers] :
        \A i, j \in 1..NumCallers : i # j => o[i] # o[j]}
RECURSIVE InOrder(_, _, _)
InOrder(map, order, k) ==
    IF k > NumCallers THEN map
    ELSE InOrder(ProviderEffect(map, procs[order[k]]).data, order, k + 1)

\* C21: on one ThreadSafeInMemoryRepository, AsyncInMemoryRepository or
\* InMemoryCacheService called by concurrent tasks, a task inside a critical
\* section works on the collection as it is (no other task has changed it
\* since the lock was taken), and once all calls have returned the collection
\* is what the same calls leave when made one after another in some order,
\* starting from the empty collection; every id saved is present with a name
\* that some task saved for it.
C21_Serialized ==
    harness \in ProviderHarnesses =>
        /\ \A p \in 1..NumCallers :
              procs[p].at = "locked"
                  => procs[p].view = Some(Guarded(MutexOf(procs[p].pc)))
        /\ AllReturned =>
              LET final == Guarded(IF harness = "InMemoryCacheService, concurrent callers"
                                   THEN "cache" ELSE "repository")
                  empty == IF harness = "InMemoryCacheService, concurrent callers"
                           THEN EmptyMap ELSE EmptyUsers
              IN  /\ \E order \in Orders : final = InOrder(empty, order, 1)
                  /\ \A p \in 1..NumCallers :
                        procs[p].op = "repository.save" =>
                            /\ procs[p].arg.id \in DOMAIN final
                            /\ \E q \in 1..NumCallers :
                                  /\ procs[q].op = "repository.save"
                                  /\ procs[q].arg.id = procs[p].arg.id
                                  /\ procs[q].arg.name = final[procs[p].arg.id]

\* Two saves of different names under one id on the AsyncInMemoryRepository
\* have both returned.
C21_Witness ==
    /\ harness = "AsyncInMemoryRepository, concurrent callers"
    /\ AllReturned
    /\ \E p, q \in 1..NumCallers :
          /\ procs[p].op = "repository.save" /\ procs[q].op = "repository.save"
          /\ procs[p].arg.id = procs[q].arg.id
          /\ procs[p].arg.name # procs[q].arg.name

\* Two saves under different ids on the ThreadSafeInMemoryRepository have both
\* returned.
C21_WitnessTwoIds ==
    /\ harness = "ThreadSafeInMemoryRepository, concurrent callers"
    /\ AllReturned
    /\ \E p, q \in 1..NumCallers :
          /\ procs[p].op = "repository.save" /\ procs[q].op = "repository.save"
          /\ procs[p].arg.id # procs[q].arg.id

\* A set and a delete of one key on the InMemoryCacheService have both
\* returned, the set last.
C21_WitnessCache ==
    /\ harness = "InMemoryCacheService, concurrent callers"
    /\ AllReturned
    /\ \E p, q \in 1..NumCallers :
          /\ procs[p].op = "cache.set" /\ procs[q].op = "cache.delete"
          /\ procs[p].arg.key = procs[q].arg.key
          /\ procs[p].arg.key \in DOMAIN us_cache

\* A task waits for the Mutex another task holds.
C21_WitnessContended ==
    /\ harness \in ProviderHarnesses
    /\ \E p, q \in 1..NumCallers :
          /\ procs[p].at = "locked"
          /\ procs[q].at = "await" /\ procs[q].pc = procs[q].op

\* The Mutexes task p holds.
HeldBy(p) == {m \in DOMAIN mutexes : mutexes[m] = p}

\* C22: a task at an await (in the sleep of AsyncInMemoryRepository, between
\* two provider calls of a service operation, or returned) holds no Mutex; a
\* task inside a critical section holds the Mutex of the provider it is in
\* and no other.
C22_NoLockAcrossAwait ==
    harness \in LockHarnesses =>
        \A p \in 1..NumCallers :
            /\ procs[p].at = "await" => HeldBy(p) = {}
            /\ procs[p].at = "locked" => HeldBy(p) = {MutexOf(procs[p].pc)}
            /\ Cardinality(HeldBy(p)) <= 1

\* A task of UserService is between its repository call and its cache call
\* while another task is inside the repository.
C22_Witness ==
    /\ harness = "UserService, concurrent callers"
    /\ \E p, q \in 1..NumCallers :
          /\ procs[p].at = "await"
          /\ procs[p].pc \in {"cache.set", "cache.delete"}
          /\ procs[q].at = "locked"
          /\ mutexes.repository = q

\* A task is in the sleep of AsyncInMemoryRepository while another one is
\* inside the critical section.
C22_WitnessSleep ==
    /\ harness = "AsyncInMemoryRepository, concurrent callers"
    /\ \E p, q \in 1..NumCallers :
          /\ procs[p].pc = "sleep"
          /\ procs[q].at = "locked"

\* Both Mutexes of an AuthService are held, by two tasks.
C22_WitnessBoth ==
    /\ harness = "AuthService, concurrent operations"
    /\ mutexes.repository # Unlocked
    /\ mutexes.cache # Unlocked

\* C24 as claimed: once concurrent get_user(id) and delete_user(id) calls on
\* the test wiring have all returned, the cache holds an entry for
\* "user:" + id only if the repository holds a record with that id.
C24_AsClaimed ==
    (/\ harness = "UserService, concurrent callers"
     /\ \A p \in 1..NumCallers : procs[p].op \in {"get_user", "delete_user"}
     /\ AllReturned)
    => \A id \in UserIds :
          ("user:" \o id) \in DOMAIN us_cache
              => \E i \in 1..Len(us_users) : us_users[i].id = id

\* C29: under fair scheduling every call that NumCallers concurrent tasks make
\* on the in-memory providers and on the services wired with them (get_user,
\* create_user, delete_user; login, register, change_password) returns: no
\* task waits for a Mutex forever.
C29_EveryCallReturns ==
    \A p \in 1..NumCallers : <>(procs[p].pc = "returned")

\* A task of a service waits for the Mutex of the repository while another
\* task is inside it.
C29_Witness ==
    /\ harness \in {"UserService, concurrent callers",
                     "AuthService, concurrent operations"}
    /\ \E p, q \in 1..NumCallers :
          /\ p # q
          /\ procs[p].at = "await"
          /\ MutexOf(procs[p].pc) = "repository"
          /\ mutexes.repository = q

\* All tasks of an AuthService have returned, a change_password with Ok among
\* them.
C29_WitnessReturned ==
    /\ harness = "AuthService, concurrent operations"
    /\ AllReturned
    /\ \E p \in 1..NumCallers :
          procs[p].op = "change_password" /\ procs[p].result = Some(Ok(Unit))

\* C31: for BcryptHasher and for MockPasswordHasher, verify(q, hash(p)) is
\* true exactly when q = p, for all passwords p and q, and hash gives the same
\* digest whenever it is given the same password again.
C31_VerifyIffSamePassword ==
    harness \in Hashers =>
        /\ last.op = "verify" => (last.result <=> last.password = last.hashed)
        /\ (last.op = "hash" /\ last.earlier.some
                /\ last.earlier.val.hashed = last.hashed)
            => last.digest = last.earlier.val.digest
        /\ (last.op = "hash" /\ last.earlier.some
                /\ last.earlier.val.hashed # last.hashed)
            => last.digest # last.earlier.val.digest

\* BcryptHasher: verify of a password that extends the hashed one.
C31_Witness ==
    /\ harness = "BcryptHasher"
    /\ last.op = "verify"
    /\ last.hashed = "password123" /\ last.password = "password1234"

\* MockPasswordHasher: verify of the hashed password, which is the digest's
\* own prefix.
C31_WitnessMock ==
    /\ harness = "MockPasswordHasher"
    /\ last.op = "verify"
    /\ last.hashed = "mock_hash_" /\ last.password = "mock_hash_"
    /\ last.result

\* The same password hashed twice in a row; the empty password verified
\* against the digest of another one.
C31_WitnessTwice ==
    /\ harness \in Hashers
    /\ last.op = "hash" /\ last.earlier.some
    /\ last.earlier.val.hashed = last.hashed

C31_WitnessEmpty ==
    /\ harness \in Hashers
    /\ last.op = "verify"
    /\ last.password = "" /\ last.hashed # ""
====
